---- MODULE Spec2Model ----
(***************************************************************************)
(* A model of pump-go-sdk: the slippage bound (autofill.applySlippage),    *)
(* the resilient RPC client (rpc.Client.call), the confirmation poller     *)
(* (txbuilder.Builder.WaitForConfirmation), the vanity keypair search      *)
(* (vanity.Generate) and the trade builders of package autofill.           *)
(*                                                                         *)
(* Each subsystem has its own variables, initial predicate, next-state     *)
(* relation and specification; a specification leaves the variables of the *)
(* other subsystems at their idle values.                                  *)
(***************************************************************************)
EXTENDS Integers, Naturals, Sequences, FiniteSets, TLC

VARIABLES
    \* ---- applySlippage (pkg/autofill/pump_amm.go, pkg/quote) ----
    slAmount,       \* uint64 argument, as four 16-bit limbs, least significant first
    slBps,          \* slippageBps argument
    slPc,           \* "call" before the call, "done" after
    slOut,          \* the returned uint64 (limbs)
    \* ---- rpc.Client.call ----
    cfg,            \* config.RPCConfig: Retry (Enabled, MaxAttempts, InitialBackoff, MaxBackoff, Jitter), limiter
    op,             \* operation name passed to call
    callPc,         \* "idle", "enter", "limiter", "limiterWait", "fn", "backoff", "panic", "done"
    attempts,       \* local variable attempts of call
    i,              \* loop index of call
    fnLog,          \* outcome of each invocation of fn, in order
    ctxDone,        \* the context of the call is cancelled or past its deadline
    callRet,        \* what call returned
    \* ---- txbuilder.Builder.WaitForConfirmation ----
    clientNil,      \* b.client == nil
    level,          \* requested ConfirmationLevel
    wfcPc,          \* "enter", "select", "poll", "pollCtxDone", "done"
    wfcCtxDone,     \* the caller's context is cancelled or past its deadline
    observed,       \* what each GetSignatureStatuses poll returned, in order
    wfcRet,         \* what WaitForConfirmation returned
    \* ---- vanity.Generate and autofill.generateMintKey ----
    vanVia,         \* entry point: "Generate" or "generateMintKey"
    opts,           \* vanity.Options passed to Generate
    vanPc,          \* "mint", "entry", "wait", "done"
    vanCtxDone,     \* the caller's ctx is done
    timerFired,     \* the context.WithTimeout deadline has passed
    found,          \* atomic.Bool found
    vanAttempts,    \* atomic.Uint64 attempts
    result,         \* *Result, NoResult while nil
    wpc,            \* each worker goroutine's position
    wkey,           \* the address of the key a worker holds after a match
    casWinners,     \* the workers whose CompareAndSwap(false, true) succeeded
    vanRet,         \* what the entry point returned
    \* ---- package autofill: the trade builders ----
    chain,          \* what the RPC node answers during the call
    bcall,          \* the builder called, its arguments and its Options
    bPc,            \* "call", "done"
    bRet,           \* what the builder returned
    \* ---- package autofill and package sdk: helper functions called on their own ----
    ucall,          \* the function called, its arguments and what the node holds
    uPc,            \* "call", "done"
    rpcLog,         \* the remote calls issued, in order
    uRet            \* what the function returned

slipVars == <<slAmount, slBps, slPc, slOut>>
callVars == <<cfg, op, callPc, attempts, i, fnLog, ctxDone, callRet>>
confVars == <<clientNil, level, wfcPc, wfcCtxDone, observed, wfcRet>>
vanVars == <<vanVia, opts, vanPc, vanCtxDone, timerFired, found, vanAttempts,
             result, wpc, wkey, casWinners, vanRet>>
buildVars == <<chain, bcall, bPc, bRet>>
unitVars == <<ucall, uPc, rpcLog, uRet>>
vars == <<slipVars, callVars, confVars, vanVars, buildVars, unitVars>>

\* Each action belongs to one subsystem and leaves the others alone.
OnlySlip == UNCHANGED <<callVars, confVars, vanVars, buildVars, unitVars>>
OnlyCall == UNCHANGED <<slipVars, confVars, vanVars, buildVars, unitVars>>
OnlyConf == UNCHANGED <<slipVars, callVars, vanVars, buildVars, unitVars>>
OnlyVan == UNCHANGED <<slipVars, callVars, confVars, buildVars, unitVars>>
OnlyBuild == UNCHANGED <<slipVars, callVars, confVars, vanVars, unitVars>>
OnlyUnit == UNCHANGED <<slipVars, callVars, confVars, vanVars, buildVars>>

(***************************************************************************)
(* uint64 arithmetic.  A uint64 is a tuple of four limbs in base 2^16,     *)
(* least significant first, so that products by a factor up to 10000 and   *)
(* the long division by 10000 stay inside the model checker's integers     *)
(* while the wrap-around of Go's uint64 multiplication is kept exact.      *)
(***************************************************************************)
LimbBase == 65536

BpsDenominator == 10000

U64(n) == <<n % LimbBase, (n \div LimbBase) % LimbBase, 0, 0>>

Zero64 == <<0, 0, 0, 0>>

\* The exact product of a four-limb number by a small factor m: five limbs.
MulSmall(a, m) ==
    LET p1 == a[1] * m
        p2 == a[2] * m + (p1 \div LimbBase)
        p3 == a[3] * m + (p2 \div LimbBase)
        p4 == a[4] * m + (p3 \div LimbBase)
    IN  <<p1 % LimbBase, p2 % LimbBase, p3 % LimbBase, p4 % LimbBase, p4 \div LimbBase>>

\* Go's uint64 product: the exact product modulo 2^64.
Wrap64(p) == <<p[1], p[2], p[3], p[4]>>

\* Quotient of a limb sequence by a small divisor d (schoolbook long division).
RECURSIVE DivFrom(_, _, _, _)
DivFrom(a, d, k, rem) ==
    IF k = 0 THEN <<>>
    ELSE LET cur == rem * LimbBase + a[k]
         IN  Append(DivFrom(a, d, k - 1, cur % d), cur \div d)

DivSmall(a, d) == DivFrom(a, d, Len(a), 0)

\* applySlippage: amount * (10_000 - slippageBps) / 10_000 in uint64 arithmetic.
applySlippage(amount, slippageBps) ==
    IF slippageBps >= BpsDenominator THEN Zero64
    ELSE DivSmall(Wrap64(MulSmall(amount, BpsDenominator - slippageBps)), BpsDenominator)

\* The mathematical value floor(amount * (10000 - slippageBps) / 10000).
FloorScaled(amount, slippageBps) ==
    Wrap64(DivSmall(MulSmall(amount, BpsDenominator - slippageBps), BpsDenominator))

\* Sample limbs and tolerances the slippage specification draws from.
LimbSamples == {0, 1, 9999, 32768, 65535}
BpsSamples == {0, 1, 100, 5000, 9999, 10000, 10001}

SlipIdle ==
    /\ slAmount = Zero64
    /\ slBps = 0
    /\ slPc = "idle"
    /\ slOut = Zero64

SlipInit ==
    /\ slAmount \in {<<a, b, c, d>> : a \in LimbSamples, b \in {0, 65535}, c \in {0, 65535}, d \in LimbSamples}
    /\ slBps \in BpsSamples
    /\ slPc = "call"
    /\ slOut = Zero64

ApplySlippage ==
    /\ slPc = "call"
    /\ slOut' = applySlippage(slAmount, slBps)
    /\ slPc' = "done"
    /\ UNCHANGED <<slAmount, slBps>>
    /\ OnlySlip

(***************************************************************************)
(* rpc.Client.call: rate-limit wait, then fn with retries and backoff.     *)
(***************************************************************************)
MaxAttemptsBound == 3

OpNames == {"getLatestBlockhash", "sendTransaction", "simulateTransaction"}

FnOutcomes == {"ok", "err", "cancel"}

NoRet == [kind |-> "none"]

\* attempts := cfg.Retry.MaxAttempts; if attempts <= 0 { attempts = 1 }
NormalizedAttempts(maxAttempts) ==
    IF maxAttempts <= 0 THEN 1 ELSE maxAttempts

\* retryable: context.Canceled and context.DeadlineExceeded are not retried.
retryable(err) ==
    IF err = "none" THEN TRUE
    ELSE IF err = "cancel" THEN FALSE
    ELSE TRUE

\* part_005 149-151: the base delay when InitialBackoff is not positive,
\* 100 * time.Millisecond.
DefaultInitialBackoff == 100000000

\* part_005 152-158: double attempt times, stop at the first value above a
\* positive MaxBackoff and take MaxBackoff instead.
RECURSIVE BackoffLoop(_, _, _, _)
BackoffLoop(delay, n, attempt, max) ==
    IF n >= attempt THEN delay
    ELSE IF delay * 2 > max /\ max > 0 THEN max
    ELSE BackoffLoop(delay * 2, n + 1, attempt, max)

\* part_005 144-158: the delay before the jitter.
BackoffDelay(k) ==
    BackoffLoop(IF k.InitialBackoff <= 0 THEN DefaultInitialBackoff ELSE k.InitialBackoff,
                0, IF k.attempt < 0 THEN 0 ELSE k.attempt, k.MaxBackoff)

\* part_005 159-162: with Jitter, rand.Int63n(int64(delay / 2)) panics when
\* delay / 2 is not positive, which is a delay of one nanosecond.
BackoffPanics(c, attempt) ==
    /\ c.Jitter
    /\ BackoffDelay([InitialBackoff |-> c.InitialBackoff, MaxBackoff |-> c.MaxBackoff,
                     attempt |-> attempt]) \div 2 <= 0

CallIdle ==
    /\ cfg = [Enabled |-> FALSE, MaxAttempts |-> 0, limiter |-> FALSE, burst |-> 0,
              deadline |-> FALSE, Jitter |-> FALSE, InitialBackoff |-> 0, MaxBackoff |-> 0]
    /\ op = "none"
    /\ callPc = "idle"
    /\ attempts = 0
    /\ i = 0
    /\ fnLog = <<>>
    /\ ctxDone = FALSE
    /\ callRet = NoRet

\* NewClient, lines 31-38: a limiter only for RPS > 0; its burst is
\* RateLimit.Burst, or int(RPS * 2) when that is 0, which is 0 for RPS < 0.5.
\* deadline: the context the limiter waits on has a deadline (withTimeout for
\* Timeout > 0, or the caller's).  Retry.InitialBackoff and Retry.MaxBackoff
\* are in nanoseconds: unset, or 1ns; they are read only with retry enabled.
CallInit ==
    /\ cfg \in {c \in [Enabled : BOOLEAN, MaxAttempts : -1..MaxAttemptsBound,
                        limiter : BOOLEAN, burst : 0..1, deadline : BOOLEAN,
                        Jitter : BOOLEAN, InitialBackoff : {0, 1}, MaxBackoff : {0, 1}] :
                    /\ ~c.limiter => (c.burst = 0 /\ ~c.deadline)
                    /\ ~c.Enabled => (~c.Jitter /\ c.InitialBackoff = 0 /\ c.MaxBackoff = 0)}
    /\ op \in OpNames
    /\ callPc = "enter"
    /\ attempts = 0
    /\ i = 0
    /\ fnLog = <<>>
    /\ ctxDone = FALSE
    /\ callRet = NoRet

\* The caller cancels the context, or the deadline set by withTimeout passes.
CtxCancel ==
    /\ callPc \in {"enter", "limiter", "limiterWait", "fn", "backoff"}
    /\ ~ctxDone
    /\ ctxDone' = TRUE
    /\ UNCHANGED <<cfg, op, callPc, attempts, i, fnLog, callRet>>
    /\ OnlyCall

\* Lines 100-110: without retry fn is called once; with retry the loop starts
\* at i = 0 with attempts normalised to at least 1.
ToFn ==
    /\ callPc' = "fn"
    /\ attempts' = IF cfg.Enabled THEN NormalizedAttempts(cfg.MaxAttempts) ELSE 0
    /\ i' = 0

\* Lines 92-98: ctx = withTimeout(ctx); with a limiter, limiter.Wait(ctx) first.
CallEnter ==
    /\ callPc = "enter"
    /\ IF cfg.limiter
         THEN callPc' = "limiter" /\ UNCHANGED <<attempts, i>>
         ELSE ToFn
    /\ UNCHANGED <<cfg, op, fnLog, ctxDone, callRet>>
    /\ OnlyCall

\* limiter.Wait, entered with a live context and a burst that admits one
\* token: the token is there and Wait returns nil at once.
LimiterGranted ==
    /\ callPc = "limiter"
    /\ cfg.burst > 0
    /\ ~ctxDone
    /\ ToFn
    /\ UNCHANGED <<cfg, op, fnLog, ctxDone, callRet>>
    /\ OnlyCall

\* limiter.Wait, entered with a live context: the token is due later and
\* Wait sleeps on a timer for it.
LimiterSleeps ==
    /\ callPc = "limiter"
    /\ cfg.burst > 0
    /\ ~ctxDone
    /\ callPc' = "limiterWait"
    /\ UNCHANGED <<cfg, op, attempts, i, fnLog, ctxDone, callRet>>
    /\ OnlyCall

\* limiter.Wait returns an error that is not the context's, with the context
\* live or not: one token exceeds a burst of 0; or the token is due after the
\* context's deadline.  call returns it as is (lines 95-97).
LimiterRefused ==
    /\ callPc = "limiter"
    /\ cfg.burst = 0 \/ (cfg.deadline /\ ~ctxDone)
    /\ callPc' = "done"
    /\ callRet' = [kind |-> "limiter_err"]
    /\ UNCHANGED <<cfg, op, attempts, i, fnLog, ctxDone>>
    /\ OnlyCall

\* limiter.Wait finds the context done on entry, or its select takes the
\* ctx.Done() case while it sleeps: call returns ctx.Err() as is (lines 95-97).
LimiterCtxDone ==
    /\ \/ callPc = "limiter" /\ cfg.burst > 0
       \/ callPc = "limiterWait"
    /\ ctxDone
    /\ callPc' = "done"
    /\ callRet' = [kind |-> "ctx_err"]
    /\ UNCHANGED <<cfg, op, attempts, i, fnLog, ctxDone>>
    /\ OnlyCall

\* The timer of the sleeping limiter.Wait fires; when the context is done as
\* well the select may still take the timer.
LimiterTimerFires ==
    /\ callPc = "limiterWait"
    /\ ToFn
    /\ UNCHANGED <<cfg, op, fnLog, ctxDone, callRet>>
    /\ OnlyCall

WrappedErr(o, n, cause) == [kind |-> "wrapped", op |-> o, attempts |-> n, cause |-> cause]

\* Lines 100-119: one invocation of fn and what call does with its outcome;
\* before a retry, c.backoff(i) computes the delay, and a panic in it unwinds
\* call, which then neither retries nor returns.
FnAttempt ==
    /\ callPc = "fn"
    /\ \E out \in FnOutcomes :
         /\ fnLog' = Append(fnLog, out)
         /\ IF ~cfg.Enabled
              THEN /\ callPc' = "done"
                   /\ callRet' = IF out = "ok" THEN [kind |-> "ok"]
                                 ELSE [kind |-> "fn_err", cause |-> out]
              ELSE IF out = "ok"
                THEN /\ callPc' = "done"
                     /\ callRet' = [kind |-> "ok"]
                ELSE IF ~retryable(out) \/ i = attempts - 1
                  THEN /\ callPc' = "done"
                       /\ callRet' = WrappedErr(op, attempts, out)
                  ELSE IF BackoffPanics(cfg, i)
                    THEN /\ callPc' = "panic"
                         /\ callRet' = [kind |-> "panic"]
                    ELSE /\ callPc' = "backoff"
                         /\ UNCHANGED callRet
    /\ UNCHANGED <<cfg, op, attempts, i, ctxDone>>
    /\ OnlyCall

\* Lines 127-129: the select takes the ctx.Done() case: call returns ctx.Err().
BackoffCtxDone ==
    /\ callPc = "backoff"
    /\ ctxDone
    /\ callPc' = "done"
    /\ callRet' = [kind |-> "ctx_err"]
    /\ UNCHANGED <<cfg, op, attempts, i, fnLog, ctxDone>>
    /\ OnlyCall

\* Lines 130, 110: the select takes the timer case, also when the context is
\* done and both cases are ready; i++ and the loop test.
BackoffElapsed ==
    /\ callPc = "backoff"
    /\ i' = i + 1
    /\ IF i + 1 < attempts
         THEN callPc' = "fn" /\ UNCHANGED callRet
         ELSE callPc' = "done" /\ callRet' = WrappedErr(op, attempts, fnLog[Len(fnLog)])
    /\ UNCHANGED <<cfg, op, attempts, fnLog, ctxDone>>
    /\ OnlyCall

\* Lines 94-98: the tokens limiter.Wait has granted to this call: one, once
\* the call is past the wait; Wait is not called again.
TokensGranted ==
    IF cfg.limiter /\ (callPc \in {"fn", "backoff"} \/ Len(fnLog) >= 1) THEN 1 ELSE 0

CallNext ==
    \/ CtxCancel
    \/ CallEnter
    \/ LimiterGranted
    \/ LimiterSleeps
    \/ LimiterRefused
    \/ LimiterCtxDone
    \/ LimiterTimerFires
    \/ FnAttempt
    \/ BackoffCtxDone
    \/ BackoffElapsed

(***************************************************************************)
(* txbuilder.Builder.WaitForConfirmation: poll the signature status on a   *)
(* 100 ms ticker until it fails, reaches the requested level, or the       *)
(* context is done.                                                        *)
(***************************************************************************)
MaxPolls == 3

\* ConfirmationLevel is a string type: the three named levels, or any other.
Levels == {"processed", "confirmed", "finalized", "other"}

\* status.ConfirmationStatus as the node reports it ("" on nodes that omit it).
ConfStatuses == {"", "processed", "confirmed", "finalized"}

RpcError == [kind |-> "rpc_error"]
NotVisible == [kind |-> "empty"]
Status(e, c) == [kind |-> "status", err |-> e, conf |-> c]

\* What one GetSignatureStatuses call can return.  A call issued with a
\* context that is already done fails in the transport; a call issued with a
\* live context returns its reply, or an error, also when the context ends
\* while it is in flight.
PollResponses(done) ==
    IF done THEN {RpcError}
    ELSE {RpcError, NotVisible} \cup {Status(e, c) : e \in BOOLEAN, c \in ConfStatuses}

\* Lines 274-288: the switch on level.
LevelReachedAnyStatus(lvl, conf) == TRUE

LevelReached(lvl, conf) ==
    CASE lvl = "processed" -> TRUE
      [] lvl = "confirmed" -> conf \in {"confirmed", "finalized"}
      [] lvl = "finalized" -> conf = "finalized"
      [] OTHER -> TRUE

\* Lines 262-288: what the tick branch does with the response: "continue",
\* or return "tx_failed" or "ok".
PollOutcomeDepthFirst(lvl, resp) ==
    IF resp.kind = "rpc_error" THEN "continue"
    ELSE IF resp.kind = "empty" THEN "continue"
    ELSE IF LevelReached(lvl, resp.conf) THEN "ok"
    ELSE IF resp.err THEN "tx_failed"
    ELSE "continue"

PollOutcome(lvl, resp) ==
    IF resp.kind = "rpc_error" THEN "continue"
    ELSE IF resp.kind = "empty" THEN "continue"
    ELSE IF resp.err THEN "tx_failed"
    ELSE IF LevelReached(lvl, resp.conf) THEN "ok"
    ELSE "continue"

ConfIdle ==
    /\ clientNil = FALSE
    /\ level = "none"
    /\ wfcPc = "idle"
    /\ wfcCtxDone = FALSE
    /\ observed = <<>>
    /\ wfcRet = NoRet

ConfInit ==
    /\ clientNil \in BOOLEAN
    /\ level \in Levels
    /\ wfcPc = "enter"
    /\ wfcCtxDone = FALSE
    /\ observed = <<>>
    /\ wfcRet = NoRet

\* The caller cancels ctx, or its deadline passes.
WfcCtxCancel ==
    /\ wfcPc \in {"enter", "select", "poll"}
    /\ ~wfcCtxDone
    /\ wfcCtxDone' = TRUE
    /\ UNCHANGED <<clientNil, level, wfcPc, observed, wfcRet>>
    /\ OnlyConf

\* Lines 250-255: the nil check, then the ticker.
WfcEnter ==
    /\ wfcPc = "enter"
    /\ IF clientNil
         THEN wfcPc' = "done" /\ wfcRet' = [kind |-> "client_nil"]
         ELSE wfcPc' = "select" /\ UNCHANGED wfcRet
    /\ UNCHANGED <<clientNil, level, wfcCtxDone, observed>>
    /\ OnlyConf

\* Lines 259-260: case <-ctx.Done(): return ctx.Err()
WfcCtxDoneReturnsNil ==
    /\ wfcPc = "select"
    /\ wfcCtxDone
    /\ wfcPc' = "done"
    /\ wfcRet' = [kind |-> "ok"]
    /\ UNCHANGED <<clientNil, level, wfcCtxDone, observed>>
    /\ OnlyConf

WfcCtxDoneBranch ==
    /\ wfcPc = "select"
    /\ wfcCtxDone
    /\ wfcPc' = "done"
    /\ wfcRet' = [kind |-> "ctx_err"]
    /\ UNCHANGED <<clientNil, level, wfcCtxDone, observed>>
    /\ OnlyConf

\* Lines 261-262: case <-ticker.C: the GetSignatureStatuses request is
\* issued, with the context as it is then ("poll": live, "pollCtxDone": done),
\* and WaitForConfirmation waits for it to return.
WfcTick ==
    /\ wfcPc = "select"
    /\ Len(observed) < MaxPolls
    /\ wfcPc' = IF wfcCtxDone THEN "pollCtxDone" ELSE "poll"
    /\ UNCHANGED <<clientNil, level, wfcCtxDone, observed, wfcRet>>
    /\ OnlyConf

\* Lines 262-289: the request returns and the reply is evaluated, with no
\* look at the context: continue with the select, or return.
WfcPollReturns ==
    /\ wfcPc \in {"poll", "pollCtxDone"}
    /\ \E resp \in PollResponses(wfcPc = "pollCtxDone") :
         /\ observed' = Append(observed, resp)
         /\ LET out == PollOutcome(level, resp)
            IN  IF out = "continue"
                  THEN wfcPc' = "select" /\ UNCHANGED wfcRet
                  ELSE wfcPc' = "done" /\ wfcRet' = [kind |-> out]
    /\ UNCHANGED <<clientNil, level, wfcCtxDone>>
    /\ OnlyConf

ConfNext ==
    \/ WfcCtxCancel
    \/ WfcEnter
    \/ WfcCtxDoneBranch
    \/ WfcTick
    \/ WfcPollReturns

(***************************************************************************)
(* vanity.Generate: workers draw random keys until one address matches the  *)
(* pattern, the first to win the compare-and-swap on found records it.      *)
(* autofill.generateMintKey calls it with a default timeout.                *)
(***************************************************************************)
MaxWorkers == 2
MaxTotalAttempts == 2
DefaultVanityTimeout == 5

\* runtime.NumCPU() is at least 1; here the machine has one CPU fewer than the
\* largest worker count a caller asks for.
NumCPU == MaxWorkers - 1

WorkerIds == 1..MaxWorkers

\* Addresses and patterns are strings, modelled as sequences of characters.
AddrSamples == {<<"a", "b">>, <<"A", "b">>, <<"a", "B">>, <<"b", "a">>}
PrefixSamples == {<<>>, <<"a">>, <<"A">>}
SuffixSamples == {<<>>, <<"b">>}
TimeoutSamples == {-1, 0, 1}
WorkersSamples == {0, 1, MaxWorkers}

NoResult == [kind |-> "nil"]
NoKey == <<>>

ToLowerChar(c) ==
    CASE c = "A" -> "a"
      [] c = "B" -> "b"
      [] OTHER -> c

ToLower(str) == [k \in 1..Len(str) |-> ToLowerChar(str[k])]

HasPrefix(str, pre) ==
    /\ Len(str) >= Len(pre)
    /\ SubSeq(str, 1, Len(pre)) = pre

HasSuffix(str, suf) ==
    /\ Len(str) >= Len(suf)
    /\ SubSeq(str, Len(str) - Len(suf) + 1, Len(str)) = suf

\* Lines 317-319.
PatternMissingNever(o) == FALSE

PatternMissing(o) == o.Prefix = <<>> /\ o.Suffix = <<>>

\* Lines 321-324.
WorkerCount(o) == IF o.Workers <= 0 THEN NumCPU ELSE o.Workers

\* Lines 327-332.
NormPrefix(o) == IF o.CaseInsensitive THEN ToLower(o.Prefix) ELSE o.Prefix
NormSuffix(o) == IF o.CaseInsensitive THEN ToLower(o.Suffix) ELSE o.Suffix

\* Lines 374-382.
Matches(o, addr) ==
    LET checkAddr == IF o.CaseInsensitive THEN ToLower(addr) ELSE addr
        matchPrefix == NormPrefix(o) = <<>> \/ HasPrefix(checkAddr, NormPrefix(o))
        matchSuffix == NormSuffix(o) = <<>> \/ HasSuffix(checkAddr, NormSuffix(o))
    IN  matchPrefix /\ matchSuffix

\* Lines 335-340: searchCtx is ctx, with a deadline when Timeout > 0.
TimerArmed == opts.Timeout > 0
searchCtxDone == vanCtxDone \/ timerFired

VanIdle ==
    /\ vanVia = "none"
    /\ opts = [Prefix |-> <<>>, Suffix |-> <<>>, Workers |-> 0, Timeout |-> 0,
               CaseInsensitive |-> FALSE]
    /\ vanPc = "idle"
    /\ vanCtxDone = FALSE
    /\ timerFired = FALSE
    /\ found = FALSE
    /\ vanAttempts = 0
    /\ result = NoResult
    /\ wpc = [w \in WorkerIds |-> "idle"]
    /\ wkey = [w \in WorkerIds |-> NoKey]
    /\ casWinners = {}
    /\ vanRet = NoRet

\* Generate called directly with any options, or generateMintKey called with
\* autofill.Options, of which only the vanity prefix, suffix and timeout reach
\* Generate.
VanInit ==
    /\ vanVia \in {"Generate", "generateMintKey"}
    /\ opts \in [Prefix : PrefixSamples, Suffix : SuffixSamples, Workers : WorkersSamples,
                 Timeout : TimeoutSamples, CaseInsensitive : BOOLEAN]
    /\ vanVia = "generateMintKey" => (opts.Workers = 0 /\ ~opts.CaseInsensitive)
    /\ vanPc = IF vanVia = "generateMintKey" THEN "mint" ELSE "entry"
    /\ vanCtxDone = FALSE
    /\ timerFired = FALSE
    /\ found = FALSE
    /\ vanAttempts = 0
    /\ result = NoResult
    /\ wpc = [w \in WorkerIds |-> "idle"]
    /\ wkey = [w \in WorkerIds |-> NoKey]
    /\ casWinners = {}
    /\ vanRet = NoRet

\* The caller cancels ctx, or its deadline passes.
VanCtxCancel ==
    /\ vanPc \in {"mint", "entry", "wait"}
    /\ ~vanCtxDone
    /\ vanCtxDone' = TRUE
    /\ UNCHANGED <<vanVia, opts, vanPc, timerFired, found, vanAttempts, result, wpc, wkey,
                   casWinners, vanRet>>
    /\ OnlyVan

\* pump.go 680-701: generateMintKey up to its call of vanity.Generate, or its
\* plain random key when no pattern is set.
MintKeyEnter ==
    /\ vanPc = "mint"
    /\ IF opts.Suffix # <<>> \/ opts.Prefix # <<>>
         THEN /\ opts' = [opts EXCEPT !.Timeout =
                             IF opts.Timeout = 0 THEN DefaultVanityTimeout ELSE opts.Timeout]
              /\ vanPc' = "entry"
              /\ UNCHANGED vanRet
         ELSE /\ vanPc' = "done"
              /\ vanRet' = [kind |-> "random_key"]
              /\ UNCHANGED opts
    /\ UNCHANGED <<vanVia, vanCtxDone, timerFired, found, vanAttempts, result, wpc, wkey,
                   casWinners>>
    /\ OnlyVan

\* Lines 317-397: the pattern check, then the workers are started.
GenerateEnter ==
    /\ vanPc = "entry"
    /\ IF PatternMissing(opts)
         THEN /\ vanPc' = "done"
              /\ vanRet' = [kind |-> "config_err"]
              /\ UNCHANGED wpc
         ELSE /\ vanPc' = "wait"
              /\ wpc' = [w \in WorkerIds |->
                            IF w <= WorkerCount(opts) THEN "loop" ELSE "idle"]
              /\ UNCHANGED vanRet
    /\ UNCHANGED <<vanVia, opts, vanCtxDone, timerFired, found, vanAttempts, result, wkey,
                   casWinners>>
    /\ OnlyVan

\* Lines 335-340: the deadline of context.WithTimeout passes.
TimeoutFires ==
    /\ vanPc = "wait"
    /\ TimerArmed
    /\ ~timerFired
    /\ timerFired' = TRUE
    /\ UNCHANGED <<vanVia, opts, vanPc, vanCtxDone, found, vanAttempts, result, wpc, wkey,
                   casWinners, vanRet>>
    /\ OnlyVan

\* Line 358: for !found.Load()
WLoadFound(w) ==
    /\ wpc[w] = "loop"
    /\ wpc' = [wpc EXCEPT ![w] = IF found THEN "exited" ELSE "ctx"]
    /\ UNCHANGED <<vanVia, opts, vanPc, vanCtxDone, timerFired, found, vanAttempts, result,
                   wkey, casWinners, vanRet>>
    /\ OnlyVan

\* Lines 359-363: the non-blocking select on searchCtx.Done().
WCheckCtxIgnored(w) ==
    /\ wpc[w] = "ctx"
    /\ wpc' = [wpc EXCEPT ![w] = "gen"]
    /\ UNCHANGED <<vanVia, opts, vanPc, vanCtxDone, timerFired, found, vanAttempts, result,
                   wkey, casWinners, vanRet>>
    /\ OnlyVan

WCheckCtx(w) ==
    /\ wpc[w] = "ctx"
    /\ wpc' = [wpc EXCEPT ![w] = IF searchCtxDone THEN "exited" ELSE "gen"]
    /\ UNCHANGED <<vanVia, opts, vanPc, vanCtxDone, timerFired, found, vanAttempts, result,
                   wkey, casWinners, vanRet>>
    /\ OnlyVan

\* Lines 365-368: NewRandomPrivateKey failed, continue.
WGenFail(w) ==
    /\ wpc[w] = "gen"
    /\ wpc' = [wpc EXCEPT ![w] = "loop"]
    /\ UNCHANGED <<vanVia, opts, vanPc, vanCtxDone, timerFired, found, vanAttempts, result,
                   wkey, casWinners, vanRet>>
    /\ OnlyVan

\* Lines 365-382: a key is drawn, attempts.Add(1), the address is matched.
WGenKey(w) ==
    /\ wpc[w] = "gen"
    /\ vanAttempts < MaxTotalAttempts
    /\ vanAttempts' = vanAttempts + 1
    /\ \E addr \in AddrSamples :
         IF Matches(opts, addr)
           THEN /\ wpc' = [wpc EXCEPT ![w] = "cas"]
                /\ wkey' = [wkey EXCEPT ![w] = addr]
           ELSE /\ wpc' = [wpc EXCEPT ![w] = "loop"]
                /\ UNCHANGED wkey
    /\ UNCHANGED <<vanVia, opts, vanPc, vanCtxDone, timerFired, found, result, casWinners,
                   vanRet>>
    /\ OnlyVan

\* Line 383: found.CompareAndSwap(false, true); the loser returns (line 393).
WCasAlwaysWins(w) ==
    /\ wpc[w] = "cas"
    /\ found' = TRUE
    /\ casWinners' = casWinners \cup {w}
    /\ wpc' = [wpc EXCEPT ![w] = "record"]
    /\ UNCHANGED wkey
    /\ UNCHANGED <<vanVia, opts, vanPc, vanCtxDone, timerFired, vanAttempts, result, vanRet>>
    /\ OnlyVan

WCas(w) ==
    /\ wpc[w] = "cas"
    /\ IF ~found
         THEN /\ found' = TRUE
              /\ casWinners' = casWinners \cup {w}
              /\ wpc' = [wpc EXCEPT ![w] = "record"]
              /\ UNCHANGED wkey
         ELSE /\ wpc' = [wpc EXCEPT ![w] = "exited"]
              /\ wkey' = [wkey EXCEPT ![w] = NoKey]
              /\ UNCHANGED <<found, casWinners>>
    /\ UNCHANGED <<vanVia, opts, vanPc, vanCtxDone, timerFired, vanAttempts, result, vanRet>>
    /\ OnlyVan

\* Lines 384-393: the winner stores the result under resultMu and returns.
WRecord(w) ==
    /\ wpc[w] = "record"
    /\ result' = [kind |-> "result", addr |-> wkey[w], Attempts |-> vanAttempts, by |-> w]
    /\ wpc' = [wpc EXCEPT ![w] = "exited"]
    /\ wkey' = [wkey EXCEPT ![w] = NoKey]
    /\ UNCHANGED <<vanVia, opts, vanPc, vanCtxDone, timerFired, found, vanAttempts,
                   casWinners, vanRet>>
    /\ OnlyVan

AllWorkersExited == \A w \in WorkerIds : wpc[w] \in {"idle", "exited"}

\* Lines 399-409: wg.Wait() and the three returns.
GenerateReturn ==
    /\ vanPc = "wait"
    /\ AllWorkersExited
    /\ vanPc' = "done"
    /\ vanRet' = IF result # NoResult THEN [kind |-> "ok", result |-> result]
                 ELSE IF searchCtxDone
                        THEN [kind |-> "cancelled", attempts |-> vanAttempts]
                        ELSE [kind |-> "failed", attempts |-> vanAttempts]
    /\ UNCHANGED <<vanVia, opts, vanCtxDone, timerFired, found, vanAttempts, result, wpc,
                   wkey, casWinners>>
    /\ OnlyVan

WorkerStep(w) ==
    \/ WLoadFound(w)
    \/ WCheckCtx(w)
    \/ WGenFail(w)
    \/ WGenKey(w)
    \/ WCas(w)
    \/ WRecord(w)

VanNext ==
    \/ VanCtxCancel
    \/ MintKeyEnter
    \/ GenerateEnter
    \/ TimeoutFires
    \/ \E w \in WorkerIds : WLoadFound(w)
    \/ \E w \in WorkerIds : WCheckCtx(w)
    \/ \E w \in WorkerIds : WGenFail(w)
    \/ \E w \in WorkerIds : WGenKey(w)
    \/ \E w \in WorkerIds : WCas(w)
    \/ \E w \in WorkerIds : WRecord(w)
    \/ GenerateReturn

(***************************************************************************)
(* Package autofill: the trade builders that return an instruction list.   *)
(* A call reads the chain through the RPC node and returns the list.       *)
(***************************************************************************)
MaxLamports == 2

Lamports == 0..MaxLamports

\* Mints a pool can pair; constants.WSOLMint is the wrapped-SOL mint.
WSOLMint == "WSOL"
PairSamples == {[base |-> "TOKEN", quote |-> "WSOL"],
                [base |-> "WSOL", quote |-> "TOKEN"],
                [base |-> "TOKEN", quote |-> "USDC"]}

\* The token accounts the builders look at.
AmmBuyATAs == <<"userBase", "userQuote", "protocolFeeQuote", "creatorVaultQuote">>
PumpBuyATAs == <<"associatedUser", "associatedBondingCurve">>
PumpSellATAs == <<"associatedUser">>

AmmBuilders == {"PumpAmmBuyWithSol", "PumpAmmBuyExactQuoteIn", "PumpAmmBuy",
                "PumpAmmSellWithSlippage"}
PumpBuilders == {"PumpBuy", "PumpBuyExactSolIn", "PumpSellWithSlippage"}

\* Instructions, by what they do and the account they act on.
CreateATA(ata) == [kind |-> "createATA", account |-> ata, lamports |-> 0]
Transfer(to, n) == [kind |-> "transfer", account |-> to, lamports |-> n]
SyncNative(ata) == [kind |-> "syncNative", account |-> ata, lamports |-> 0]
CloseAccount(acct) == [kind |-> "closeAccount", account |-> acct, lamports |-> 0]
Swap(name) == [kind |-> "swap", account |-> name, lamports |-> 0]

BuildErr(e) == [kind |-> "err", err |-> e, instrs |-> <<>>, min |-> Zero64]
BuildOk(is, m) == [kind |-> "ok", err |-> "none", instrs |-> is, min |-> m]

\* util.go 121-176: one create instruction per requested account that is
\* missing (or not owned by the token program), in request order.
RECURSIVE ensureATABatch(_, _)
ensureATABatch(c, reqs) ==
    IF reqs = <<>> THEN <<>>
    ELSE (IF Head(reqs) \in c.missing THEN <<CreateATA(Head(reqs))>> ELSE <<>>)
         \o ensureATABatch(c, Tail(reqs))

existingQuoteIgnored(c) == 0

\* util.go 147-164: Balances[userQuoteATA]: 0 for a missing account, the
\* decoded amount for an existing one.
existingQuote(c) == IF "userQuote" \in c.missing THEN 0 ELSE c.quoteBalance

\* util.go 245-257.
buildWrapWSOL(wsolATA, n) ==
    IF n = 0 THEN <<>> ELSE <<Transfer(wsolATA, n), SyncNative(wsolATA)>>

\* pump_amm.go 787-789.
isWSOL(mint, progIsToken) == mint = WSOLMint /\ progIsToken

\* pump_amm.go 966-976: no tip without an amount or without a tip account.
appendJitoTipFirst(is, o) ==
    IF o.JitoTipLamports = 0 THEN is
    ELSE IF o.JitoTipAccount = "zero" THEN is
    ELSE <<Transfer(o.JitoTipAccount, o.JitoTipLamports)>> \o is

appendJitoTip(is, o) ==
    IF o.JitoTipLamports = 0 THEN is
    ELSE IF o.JitoTipAccount = "zero" THEN is
    ELSE Append(is, Transfer(o.JitoTipAccount, o.JitoTipLamports))

\* pump.go 1007-1017: a zero tip account is replaced by one of Jito's.
appendJitoTipPump(is, o) ==
    IF o.JitoTipLamports = 0 THEN is
    ELSE Append(is, Transfer(IF o.JitoTipAccount = "zero" THEN "jitoTipAccount"
                             ELSE o.JitoTipAccount,
                             o.JitoTipLamports))

\* The checks every builder starts with, and the account autofill.
EntryError(c, k) ==
    IF k.fault = "rpc_nil" THEN "nil_rpc"
    ELSE IF k.fault = "user_zero" THEN "validation"
    ELSE IF k.fault = "target_zero" THEN "validation"
    ELSE "none"

AutofillError(c) == IF c.fault = "core_err" THEN "autofill" ELSE "none"

\* pump_amm.go 134-139, 231-236: close the base account when the base mint is
\* WSOL, then the tip.
BuyExactTail(c, k) ==
    appendJitoTip(
        (IF c.pair.base = WSOLMint THEN <<CloseAccount("userBase")>> ELSE <<>>),
        k.opt)

\* pump_amm.go 51-148.
PumpAmmBuyWithSolResult(c, k) ==
    LET quoteLamports == k.amount
        created == ensureATABatch(c, AmmBuyATAs)
        wrap == IF isWSOL(c.pair.quote, c.quoteProgIsToken) /\ quoteLamports > existingQuote(c)
                  THEN buildWrapWSOL("userQuote", quoteLamports - existingQuote(c))
                  ELSE <<>>
        minBaseOut == applySlippage(U64(c.simOut), k.slippageBps)
    IN  IF EntryError(c, k) # "none" THEN BuildErr(EntryError(c, k))
        ELSE IF quoteLamports = 0 THEN BuildErr("validation")
        ELSE IF k.slippageBps > BpsDenominator THEN BuildErr("validation")
        ELSE IF AutofillError(c) # "none" THEN BuildErr(AutofillError(c))
        ELSE IF c.fault = "ata_fetch_err" THEN BuildErr("rpc")
        ELSE IF c.fault = "sim_err" THEN BuildErr("simulation")
        ELSE BuildOk(created \o wrap \o <<Swap("BuyExactQuoteIn")>> \o BuyExactTail(c, k),
                     minBaseOut)

\* pump_amm.go 165-245.
PumpAmmBuyExactQuoteInResult(c, k) ==
    LET quoteLamports == k.amount
        created == ensureATABatch(c, AmmBuyATAs)
        wrap == IF isWSOL(c.pair.quote, c.quoteProgIsToken) /\ quoteLamports > 0
                     /\ quoteLamports > existingQuote(c)
                  THEN buildWrapWSOL("userQuote", quoteLamports - existingQuote(c))
                  ELSE <<>>
    IN  IF EntryError(c, k) # "none" THEN BuildErr(EntryError(c, k))
        ELSE IF quoteLamports = 0 THEN BuildErr("validation")
        ELSE IF AutofillError(c) # "none" THEN BuildErr(AutofillError(c))
        ELSE IF c.fault = "ata_fetch_err" THEN BuildErr("rpc")
        ELSE BuildOk(created \o wrap \o <<Swap("BuyExactQuoteIn")>> \o BuyExactTail(c, k),
                     U64(k.limit))

\* pump_amm.go 262-362.
PumpAmmBuyResult(c, k) ==
    LET maxQuoteIn == k.limit
        quoteIsWSOL == c.pair.quote = WSOLMint /\ c.quoteProgIsToken
        created == ensureATABatch(c, AmmBuyATAs)
        \* lines 320-325: simulateQuoteConsumedNoSign, 0 when nothing was consumed
        actualQuoteNeeded == IF quoteIsWSOL THEN c.simOut ELSE 0
        wrap == IF quoteIsWSOL /\ actualQuoteNeeded > 0 /\ actualQuoteNeeded > existingQuote(c)
                  THEN buildWrapWSOL("userQuote", actualQuoteNeeded - existingQuote(c))
                  ELSE <<>>
        closeBase == IF c.pair.base = WSOLMint THEN <<CloseAccount("userBase")>> ELSE <<>>
        closeQuote == IF c.pair.quote = WSOLMint THEN <<CloseAccount("userQuote")>> ELSE <<>>
    IN  IF EntryError(c, k) # "none" THEN BuildErr(EntryError(c, k))
        ELSE IF k.amount = 0 \/ maxQuoteIn = 0 THEN BuildErr("validation")
        ELSE IF AutofillError(c) # "none" THEN BuildErr(AutofillError(c))
        ELSE IF c.fault = "ata_fetch_err" THEN BuildErr("rpc")
        ELSE IF quoteIsWSOL /\ c.fault = "sim_err" THEN BuildErr("simulation")
        ELSE BuildOk(appendJitoTip(created \o wrap \o <<Swap("Buy")>> \o closeBase \o closeQuote,
                                   k.opt),
                     U64(maxQuoteIn))

\* pump_amm.go 476-483: the accounts to check, the known ones skipped.
SellATARequestsAll(k) == <<"userQuote", "userBase">>

SellATARequests(k) ==
    (IF "userQuote" \in k.opt.KnownATAs THEN <<>> ELSE <<"userQuote">>)
    \o (IF "userBase" \in k.opt.KnownATAs THEN <<>> ELSE <<"userBase">>)

\* pump_amm.go 442-537.
PumpAmmSellWithSlippageResult(c, k) ==
    LET ataReqs == SellATARequests(k)
        ensureInstrs == ensureATABatch(c, ataReqs)
        simulated == k.opt.ExpectedQuoteOut = 0
        quoteOut == IF simulated THEN c.simOut ELSE k.opt.ExpectedQuoteOut
        closeBase == IF k.opt.CloseBaseATA THEN <<CloseAccount("userBase")>> ELSE <<>>
        closeQuote == IF c.pair.quote = WSOLMint THEN <<CloseAccount("userQuote")>> ELSE <<>>
    IN  IF EntryError(c, k) # "none" THEN BuildErr(EntryError(c, k))
        ELSE IF k.amount = 0 THEN BuildErr("validation")
        ELSE IF k.slippageBps > BpsDenominator THEN BuildErr("validation")
        ELSE IF AutofillError(c) # "none" THEN BuildErr(AutofillError(c))
        ELSE IF ataReqs # <<>> /\ c.fault = "ata_fetch_err" THEN BuildErr("rpc")
        ELSE IF simulated /\ c.fault = "sim_err" THEN BuildErr("simulation")
        ELSE BuildOk(appendJitoTip(ensureInstrs \o <<Swap("Sell")>> \o closeBase \o closeQuote,
                                   k.opt),
                     applySlippage(U64(quoteOut), k.slippageBps))

\* pump_amm.go 442-537: the helpers of PumpAmmSellWithSlippage that talk to
\* the node, in call order: fetchAmmCore (in PumpAmmSell, 398), the
\* token-account existence fetch ensureATABatchWithBalances (489, only for a
\* non-empty request list) and simulateAmmQuoteOut (503, only without an
\* expected output).  An early error return ends the list.
PumpAmmSellWithSlippageRemote(c, k) ==
    LET ataReqs == SellATARequests(k)
        simulated == k.opt.ExpectedQuoteOut = 0
    IN  IF EntryError(c, k) # "none" THEN <<>>
        ELSE IF k.amount = 0 THEN <<>>
        ELSE IF k.slippageBps > BpsDenominator THEN <<>>
        ELSE <<"fetchAmmCore">>
             \o (IF AutofillError(c) # "none" THEN <<>>
                 ELSE (IF ataReqs # <<>> THEN <<"ensureATABatchWithBalances">> ELSE <<>>)
                      \o (IF ataReqs # <<>> /\ c.fault = "ata_fetch_err" THEN <<>>
                          ELSE IF simulated THEN <<"simulateAmmQuoteOut">> ELSE <<>>))

\* pump.go 42-98.
PumpBuyResult(c, k) ==
    IF EntryError(c, k) # "none" THEN BuildErr(EntryError(c, k))
    ELSE IF k.amount = 0 \/ k.limit = 0 THEN BuildErr("validation")
    ELSE IF AutofillError(c) # "none" THEN BuildErr(AutofillError(c))
    ELSE IF c.fault = "ata_fetch_err" THEN BuildErr("rpc")
    ELSE BuildOk(appendJitoTipPump(ensureATABatch(c, PumpBuyATAs) \o <<Swap("Buy")>>, k.opt),
                 U64(k.limit))

\* pump.go 115-192.
PumpBuyExactSolInResult(c, k) ==
    IF EntryError(c, k) # "none" THEN BuildErr(EntryError(c, k))
    ELSE IF k.amount = 0 THEN BuildErr("validation")
    ELSE IF AutofillError(c) # "none" THEN BuildErr(AutofillError(c))
    ELSE IF c.fault = "ata_fetch_err" THEN BuildErr("rpc")
    ELSE BuildOk(appendJitoTipPump(ensureATABatch(c, PumpBuyATAs) \o <<Swap("BuyExactSolIn")>>,
                                   k.opt),
                 U64(k.limit))

\* pump.go 272-340.
PumpSellWithSlippageResult(c, k) ==
    LET closeBase == IF k.opt.CloseBaseATA THEN <<CloseAccount("associatedUser")>> ELSE <<>>
    IN  IF EntryError(c, k) # "none" THEN BuildErr(EntryError(c, k))
        ELSE IF k.amount = 0 THEN BuildErr("validation")
        ELSE IF k.slippageBps > BpsDenominator THEN BuildErr("validation")
        ELSE IF AutofillError(c) # "none" THEN BuildErr(AutofillError(c))
        ELSE IF c.fault = "ata_fetch_err" THEN BuildErr("rpc")
        ELSE IF c.fault = "sim_err" THEN BuildErr("simulation")
        ELSE BuildOk(appendJitoTipPump(ensureATABatch(c, PumpSellATAs) \o <<Swap("Sell")>>
                                           \o closeBase,
                                       k.opt),
                     applySlippage(U64(c.simOut), k.slippageBps))

\* Seq2Set of a tuple of account names.
Names(t) == {t[n] : n \in 1..Len(t)}

ChainFaults == {"none", "core_err", "ata_fetch_err", "sim_err"}
EntryFaults == {"none", "rpc_nil", "user_zero", "target_zero"}
SlippageSamples == {100, 10000, 10001}
TipAccounts == {"zero", "tipAccount"}

NoOptions ==
    [JitoTipLamports |-> 0, JitoTipAccount |-> "zero", CloseBaseATA |-> FALSE,
     KnownATAs |-> {}, ExpectedQuoteOut |-> 0]

\* The Options fields a builder reads; the others stay at their zero value.
OptionsFor(fn) ==
    {o \in [JitoTipLamports : {0, 1}, JitoTipAccount : TipAccounts, CloseBaseATA : BOOLEAN,
            KnownATAs : {{}, {"userBase"}, {"userBase", "userQuote"}},
            ExpectedQuoteOut : {0, MaxLamports}] :
        /\ fn \notin {"PumpAmmSellWithSlippage", "PumpSellWithSlippage"} => ~o.CloseBaseATA
        /\ fn # "PumpAmmSellWithSlippage" => (o.KnownATAs = {} /\ o.ExpectedQuoteOut = 0)}

\* The arguments a builder takes; the others stay at zero.
CallsFor(fn) ==
    {k \in [fn : {fn}, fault : EntryFaults, amount : Lamports, limit : Lamports,
            slippageBps : SlippageSamples \cup {0}, opt : OptionsFor(fn)] :
        /\ (fn \in {"PumpAmmBuyWithSol", "PumpAmmSellWithSlippage", "PumpSellWithSlippage"})
               <=> k.slippageBps # 0
        /\ fn \in {"PumpAmmBuyWithSol", "PumpAmmSellWithSlippage", "PumpSellWithSlippage"}
               => k.limit = 0}

\* Which of the accounts are missing on the node.
AmmMissingSamples == {{}, {"userQuote"}, {"userBase", "creatorVaultQuote"}, Names(AmmBuyATAs)}
PumpMissingSamples == SUBSET Names(PumpBuyATAs)

DefaultChain ==
    [fault |-> "none", pair |-> [base |-> "TOKEN", quote |-> "SOL"],
     quoteProgIsToken |-> TRUE, missing |-> {}, quoteBalance |-> 0, simOut |-> 0]

\* What the node holds for a pool (Pump AMM) or for a bonding curve (Pump).
\* A missing account has no balance; the WSOL mint is the one whose owning
\* program matters; after a failed pool or curve fetch nothing else is read.
ChainsFor(fn) ==
    IF fn \in AmmBuilders
      THEN {c \in [fault : ChainFaults, pair : PairSamples, quoteProgIsToken : BOOLEAN,
                   missing : AmmMissingSamples, quoteBalance : Lamports, simOut : Lamports] :
               /\ "userQuote" \in c.missing => c.quoteBalance = 0
               /\ c.pair.quote # WSOLMint => c.quoteProgIsToken
               /\ c.fault = "core_err" =>
                      (c.missing = {} /\ c.quoteBalance = 0 /\ c.simOut = 0)}
      ELSE {c \in [fault : ChainFaults, pair : {DefaultChain.pair}, quoteProgIsToken : {TRUE},
                   missing : PumpMissingSamples, quoteBalance : {0}, simOut : Lamports] :
               c.fault = "core_err" => (c.missing = {} /\ c.simOut = 0)}

BuildIdle ==
    /\ chain = DefaultChain
    /\ bcall = [fn |-> "none", fault |-> "none", amount |-> 0, limit |-> 0, slippageBps |-> 0,
                opt |-> NoOptions]
    /\ bPc = "idle"
    /\ bRet = NoRet

\* A call rejected by the entry checks never reads the chain.
BuildInit ==
    /\ \E fn \in AmmBuilders \cup PumpBuilders :
         /\ bcall \in CallsFor(fn)
         /\ chain \in ChainsFor(fn)
    /\ bcall.fault # "none" => chain.fault = "none" /\ chain.missing = {} /\ chain.simOut = 0
                               /\ chain.quoteBalance = 0
    /\ bPc = "call"
    /\ bRet = NoRet

PumpAmmBuyWithSol ==
    /\ bPc = "call"
    /\ bcall.fn = "PumpAmmBuyWithSol"
    /\ bRet' = PumpAmmBuyWithSolResult(chain, bcall)
    /\ bPc' = "done"
    /\ UNCHANGED <<chain, bcall>>
    /\ OnlyBuild

PumpAmmBuyExactQuoteIn ==
    /\ bPc = "call"
    /\ bcall.fn = "PumpAmmBuyExactQuoteIn"
    /\ bRet' = PumpAmmBuyExactQuoteInResult(chain, bcall)
    /\ bPc' = "done"
    /\ UNCHANGED <<chain, bcall>>
    /\ OnlyBuild

PumpAmmBuy ==
    /\ bPc = "call"
    /\ bcall.fn = "PumpAmmBuy"
    /\ bRet' = PumpAmmBuyResult(chain, bcall)
    /\ bPc' = "done"
    /\ UNCHANGED <<chain, bcall>>
    /\ OnlyBuild

PumpAmmSellWithSlippage ==
    /\ bPc = "call"
    /\ bcall.fn = "PumpAmmSellWithSlippage"
    /\ bRet' = PumpAmmSellWithSlippageResult(chain, bcall)
    /\ bPc' = "done"
    /\ UNCHANGED <<chain, bcall>>
    /\ OnlyBuild

PumpBuy ==
    /\ bPc = "call"
    /\ bcall.fn = "PumpBuy"
    /\ bRet' = PumpBuyResult(chain, bcall)
    /\ bPc' = "done"
    /\ UNCHANGED <<chain, bcall>>
    /\ OnlyBuild

PumpBuyExactSolIn ==
    /\ bPc = "call"
    /\ bcall.fn = "PumpBuyExactSolIn"
    /\ bRet' = PumpBuyExactSolInResult(chain, bcall)
    /\ bPc' = "done"
    /\ UNCHANGED <<chain, bcall>>
    /\ OnlyBuild

PumpSellWithSlippage ==
    /\ bPc = "call"
    /\ bcall.fn = "PumpSellWithSlippage"
    /\ bRet' = PumpSellWithSlippageResult(chain, bcall)
    /\ bPc' = "done"
    /\ UNCHANGED <<chain, bcall>>
    /\ OnlyBuild

BuildNext ==
    \/ PumpAmmBuyWithSol
    \/ PumpAmmBuyExactQuoteIn
    \/ PumpAmmBuy
    \/ PumpAmmSellWithSlippage
    \/ PumpBuy
    \/ PumpBuyExactSolIn
    \/ PumpSellWithSlippage

(***************************************************************************)
(* Package autofill helpers, called on their own: what they ask the node   *)
(* and what they return.                                                   *)
(***************************************************************************)
MaxAddrs == 2

AddrSamples3 == {"addr1", "addr2", "addr3"}

\* An account as the node returns it: its owner program and its data.
Nil == [kind |-> "nil"]
Account(o, d) == [kind |-> "account", owner |-> o, data |-> d]
NilData == [kind |-> "nil", amount |-> 0]
EmptyData == [kind |-> "empty", amount |-> 0]
Garbage == [kind |-> "garbage", amount |-> 0]
TokenData(n) == [kind |-> "token", amount |-> n]

AccountSamples ==
    {Account("Token", TokenData(0)), Account("Token", TokenData(1)),
     Account("Token", Garbage), Account("Token", NilData),
     Account("System", EmptyData), Account("Token2022", TokenData(1))}

\* Tuples of at most n elements of S.
RECURSIVE SeqsUpTo(_, _)
SeqsUpTo(S, n) ==
    IF n = 0 THEN {<<>>}
    ELSE SeqsUpTo(S, n - 1) \cup {Append(t, x) : t \in {u \in SeqsUpTo(S, n - 1) : Len(u) = n - 1}, x \in S}

UnitOk(v) == [kind |-> "ok", value |-> v]
UnitErr(e) == [kind |-> "err", err |-> e]

\* util.go 234-240: the entries of res.Value that are not nil, under the
\* string of the address asked at the same index.
FetchedMapAll(addrs, value) ==
    [a \in {addrs[n] : n \in 1..Len(addrs)} |-> Nil]

FetchedMap(addrs, value) ==
    LET hit == {n \in 1..Len(addrs) : value[n] # Nil}
        last(a) == CHOOSE n \in hit : addrs[n] = a /\ \A m \in hit : addrs[m] = a => m <= n
    IN  [a \in {addrs[n] : n \in hit} |-> value[last(a)]]

\* getMultipleAccounts on the node: one entry per address asked, nil for an
\* address that holds no account.
GetMultipleAccounts(node, addrs) == [n \in 1..Len(addrs) |-> node.accounts[addrs[n]]]

UnitIdle ==
    /\ ucall = [fn |-> "none"]
    /\ uPc = "idle"
    /\ rpcLog = <<>>
    /\ uRet = NoRet

\* The client the helper is given has retries enabled, with retryAttempts as
\* its Retry.MaxAttempts; the helper calls rpc.Raw() and never reads it.
FetchInit ==
    /\ ucall \in [fn : {"fetchAccountsBatch"},
                  addrs : SeqsUpTo(AddrSamples3, MaxAddrs + 1),
                  rpcErr : BOOLEAN,
                  retryAttempts : 1..MaxAttemptsBound,
                  node : [accounts : [AddrSamples3 -> {Nil, Account("Token", TokenData(1)),
                                                        Account("System", EmptyData)}]]]
    /\ uPc = "call"
    /\ rpcLog = <<>>
    /\ uRet = NoRet

\* util.go 220-242.
FetchAccountsBatch ==
    /\ uPc = "call"
    /\ ucall.fn = "fetchAccountsBatch"
    /\ uPc' = "done"
    /\ IF Len(ucall.addrs) = 0
         THEN /\ uRet' = UnitOk(<<>>)
              /\ UNCHANGED rpcLog
         ELSE /\ rpcLog' = Append(rpcLog, "getMultipleAccounts")
              /\ uRet' = IF ucall.rpcErr THEN UnitErr("rpc")
                         ELSE UnitOk(FetchedMap(ucall.addrs,
                                                GetMultipleAccounts(ucall.node, ucall.addrs)))
    /\ UNCHANGED ucall
    /\ OnlyUnit

\* util.go 131-138, 211-217: the associated token address is derived from the
\* wallet and mint (here one name for the pair) and the token program.
ATAIds == {"ata1", "ata2"}
TokenPrograms == {"Token", "Token2022"}
ATAAddr(req) == <<req.ata, req.TokenProgram>>
ATARequests == [ata : ATAIds, TokenProgram : TokenPrograms]
ATAAddrs == {ATAAddr(r) : r \in ATARequests}

\* What the node can hold at a derived address: nothing, a system account
\* that was sent lamports, or a token account of the deriving program.
HeldAt(addr) ==
    {Nil, Account("System", EmptyData)}
    \cup {Account(addr[2], d) : d \in {TokenData(0), TokenData(1), Garbage, NilData}}

\* util.go 148-149.
IsTokenAccountAnyOwner(amap, req) == ATAAddr(req) \in DOMAIN amap

IsTokenAccount(amap, req) ==
    /\ ATAAddr(req) \in DOMAIN amap
    /\ amap[ATAAddr(req)].owner = req.TokenProgram

\* Go map assignment m[k] = v.
MapPut(m, k, v) == [a \in (DOMAIN m) \cup {k} |-> IF a = k THEN v ELSE m[a]]

\* util.go 147-174: the loop over the requests.
RECURSIVE EnsureLoop(_, _, _)
EnsureLoop(reqs, amap, res) ==
    IF reqs = <<>> THEN res
    ELSE LET req == Head(reqs)
             addr == ATAAddr(req)
         IN  IF IsTokenAccount(amap, req)
               THEN EnsureLoop(Tail(reqs), amap,
                        IF amap[addr].data.kind = "token"
                          THEN [res EXCEPT !.Balances =
                                   MapPut(res.Balances, addr, amap[addr].data.amount)]
                          ELSE res)
               ELSE EnsureLoop(Tail(reqs), amap,
                        [Instructions |-> Append(res.Instructions, CreateATA(addr)),
                         Balances |-> MapPut(res.Balances, addr, 0)])

EnsureInit ==
    /\ ucall \in [fn : {"ensureATABatchWithBalances"},
                  requests : SeqsUpTo(ATARequests, MaxAddrs),
                  rpcErr : BOOLEAN,
                  node : [accounts : {f \in [ATAAddrs -> UNION {HeldAt(x) : x \in ATAAddrs}] :
                                         \A x \in ATAAddrs : f[x] \in HeldAt(x)}]]
    /\ uPc = "call"
    /\ rpcLog = <<>>
    /\ uRet = NoRet

\* util.go 121-176.
EnsureATABatchWithBalances ==
    /\ uPc = "call"
    /\ ucall.fn = "ensureATABatchWithBalances"
    /\ uPc' = "done"
    /\ LET addrs == [n \in 1..Len(ucall.requests) |-> ATAAddr(ucall.requests[n])]
           empty == [Instructions |-> <<>>, Balances |-> <<>>]
       IN  IF Len(ucall.requests) = 0
             THEN /\ uRet' = UnitOk(empty)
                  /\ UNCHANGED rpcLog
             ELSE /\ rpcLog' = Append(rpcLog, "getMultipleAccounts")
                  /\ uRet' = IF ucall.rpcErr THEN UnitErr("rpc")
                             ELSE UnitOk(EnsureLoop(ucall.requests,
                                                    FetchedMap(addrs,
                                                        GetMultipleAccounts(ucall.node, addrs)),
                                                    empty))
    /\ UNCHANGED ucall
    /\ OnlyUnit

(***************************************************************************)
(* The public entry points of packages autofill and quote: the checks each *)
(* makes on its arguments before its first request to the node.            *)
(***************************************************************************)
TradeEntryPoints ==
    {"PumpBuy", "PumpBuyExactSolIn", "PumpSell", "PumpSellWithSlippage",
     "PumpAmmBuyWithSol", "PumpAmmBuyExactQuoteIn", "PumpAmmBuy", "PumpAmmSell",
     "PumpAmmSellWithSlippage"}
QuoteEntryPoints == {"AmmBuyQuote", "AmmSellQuote", "PumpBuyQuote", "PumpSellQuote"}

\* wallet.go 104-139 (package types).
ValidateBuyParams(amount, maxCost) ==
    IF amount = 0 THEN "validation"
    ELSE IF maxCost = 0 THEN "validation"
    ELSE "none"

ValidateSlippage(slippageBps) ==
    IF slippageBps > BpsDenominator THEN "validation" ELSE "none"

ValidatePublicKey(isZero) == IF isZero THEN "validation" ELSE "none"

NonZero(n) == IF n = 0 THEN "validation" ELSE "none"

NotNil(isNil, e) == IF isNil THEN e ELSE "none"

\* The first check that fails, in the order the code makes them.
RECURSIVE FirstError(_)
FirstError(checks) ==
    IF checks = <<>> THEN "none"
    ELSE IF Head(checks) # "none" THEN Head(checks)
    ELSE FirstError(Tail(checks))

\* The checks of each entry point, up to its first request to the node.  A
\* quote entry point goes on with the checks of the builder it calls.
RECURSIVE EntryChecks(_, _)
EntryChecks(fn, k) ==
    LET head == <<NotNil(k.rpcNil, "nil_rpc"), ValidatePublicKey(k.userZero),
                  ValidatePublicKey(k.venueZero)>>
    IN  CASE fn = "PumpBuy" -> head \o <<ValidateBuyParams(k.amount, k.limit)>>
          [] fn = "PumpBuyExactSolIn" -> head \o <<NonZero(k.amount)>>
          [] fn = "PumpSell" -> head \o <<NonZero(k.amount)>>
          [] fn = "PumpSellWithSlippage" ->
                 head \o <<NonZero(k.amount), ValidateSlippage(k.slippageBps)>>
          [] fn = "PumpAmmBuyWithSol" ->
                 head \o <<NonZero(k.amount), ValidateSlippage(k.slippageBps)>>
          [] fn = "PumpAmmBuyExactQuoteIn" -> head \o <<NonZero(k.amount)>>
          [] fn = "PumpAmmBuy" -> head \o <<ValidateBuyParams(k.amount, k.limit)>>
          [] fn = "PumpAmmSell" -> head
          [] fn = "PumpAmmSellWithSlippage" ->
                 head \o <<NonZero(k.amount), ValidateSlippage(k.slippageBps)>>
          [] fn = "AmmBuyQuote" ->
                 <<NotNil(k.rpcNil, "nil_rpc"), NotNil(k.signerNil, "nil_signer"),
                   NonZero(k.amount)>> \o EntryChecks("PumpAmmBuyWithSol", k)
          [] fn = "AmmSellQuote" ->
                 <<NotNil(k.rpcNil, "nil_rpc"), NotNil(k.signerNil, "nil_signer"),
                   NonZero(k.amount)>> \o EntryChecks("PumpAmmSell", k)
          [] fn = "PumpBuyQuote" -> <<NotNil(k.rpcNil, "nil_rpc"), NonZero(k.amount)>>
          [] fn = "PumpSellQuote" -> <<NotNil(k.rpcNil, "nil_rpc"), NonZero(k.amount)>>

\* The first request an entry point sends once its checks have passed.
FirstRequest(fn) ==
    IF fn \in {"PumpBuyQuote", "PumpSellQuote"} THEN "getAccountInfo"
    ELSE "getMultipleAccounts"

EntryInit ==
    /\ ucall \in [fn : TradeEntryPoints \cup QuoteEntryPoints,
                  rpcNil : BOOLEAN, signerNil : BOOLEAN,
                  userZero : BOOLEAN, venueZero : BOOLEAN,
                  amount : {0, 1}, limit : {0, 1},
                  slippageBps : SlippageSamples,
                  rpcErr : BOOLEAN]
    /\ uPc = "call"
    /\ rpcLog = <<>>
    /\ uRet = NoRet

\* pump.go 42-98: the checks, then the first request.
PumpBuyEntry ==
    /\ uPc = "call"
    /\ ucall.fn = "PumpBuy"
    /\ uPc' = "done"
    /\ IF FirstError(EntryChecks("PumpBuy", ucall)) # "none"
         THEN /\ uRet' = UnitErr(FirstError(EntryChecks("PumpBuy", ucall)))
              /\ UNCHANGED rpcLog
         ELSE /\ rpcLog' = Append(rpcLog, FirstRequest("PumpBuy"))
              /\ uRet' = IF ucall.rpcErr THEN UnitErr("rpc") ELSE UnitOk("sent")
    /\ UNCHANGED ucall
    /\ OnlyUnit

\* pump.go 115-192: the checks, then the first request.
PumpBuyExactSolInEntry ==
    /\ uPc = "call"
    /\ ucall.fn = "PumpBuyExactSolIn"
    /\ uPc' = "done"
    /\ IF FirstError(EntryChecks("PumpBuyExactSolIn", ucall)) # "none"
         THEN /\ uRet' = UnitErr(FirstError(EntryChecks("PumpBuyExactSolIn", ucall)))
              /\ UNCHANGED rpcLog
         ELSE /\ rpcLog' = Append(rpcLog, FirstRequest("PumpBuyExactSolIn"))
              /\ uRet' = IF ucall.rpcErr THEN UnitErr("rpc") ELSE UnitOk("sent")
    /\ UNCHANGED ucall
    /\ OnlyUnit

\* pump.go 207-249: the checks, then the first request.
PumpSellEntry ==
    /\ uPc = "call"
    /\ ucall.fn = "PumpSell"
    /\ uPc' = "done"
    /\ IF FirstError(EntryChecks("PumpSell", ucall)) # "none"
         THEN /\ uRet' = UnitErr(FirstError(EntryChecks("PumpSell", ucall)))
              /\ UNCHANGED rpcLog
         ELSE /\ rpcLog' = Append(rpcLog, FirstRequest("PumpSell"))
              /\ uRet' = IF ucall.rpcErr THEN UnitErr("rpc") ELSE UnitOk("sent")
    /\ UNCHANGED ucall
    /\ OnlyUnit

\* pump.go 272-340: the checks, then the first request.
PumpSellWithSlippageEntry ==
    /\ uPc = "call"
    /\ ucall.fn = "PumpSellWithSlippage"
    /\ uPc' = "done"
    /\ IF FirstError(EntryChecks("PumpSellWithSlippage", ucall)) # "none"
         THEN /\ uRet' = UnitErr(FirstError(EntryChecks("PumpSellWithSlippage", ucall)))
              /\ UNCHANGED rpcLog
         ELSE /\ rpcLog' = Append(rpcLog, FirstRequest("PumpSellWithSlippage"))
              /\ uRet' = IF ucall.rpcErr THEN UnitErr("rpc") ELSE UnitOk("sent")
    /\ UNCHANGED ucall
    /\ OnlyUnit

\* pump_amm.go 51-148: the checks, then the first request.
PumpAmmBuyWithSolEntry ==
    /\ uPc = "call"
    /\ ucall.fn = "PumpAmmBuyWithSol"
    /\ uPc' = "done"
    /\ IF FirstError(EntryChecks("PumpAmmBuyWithSol", ucall)) # "none"
         THEN /\ uRet' = UnitErr(FirstError(EntryChecks("PumpAmmBuyWithSol", ucall)))
              /\ UNCHANGED rpcLog
         ELSE /\ rpcLog' = Append(rpcLog, FirstRequest("PumpAmmBuyWithSol"))
              /\ uRet' = IF ucall.rpcErr THEN UnitErr("rpc") ELSE UnitOk("sent")
    /\ UNCHANGED ucall
    /\ OnlyUnit

\* pump_amm.go 165-245: the checks, then the first request.
PumpAmmBuyExactQuoteInEntry ==
    /\ uPc = "call"
    /\ ucall.fn = "PumpAmmBuyExactQuoteIn"
    /\ uPc' = "done"
    /\ IF FirstError(EntryChecks("PumpAmmBuyExactQuoteIn", ucall)) # "none"
         THEN /\ uRet' = UnitErr(FirstError(EntryChecks("PumpAmmBuyExactQuoteIn", ucall)))
              /\ UNCHANGED rpcLog
         ELSE /\ rpcLog' = Append(rpcLog, FirstRequest("PumpAmmBuyExactQuoteIn"))
              /\ uRet' = IF ucall.rpcErr THEN UnitErr("rpc") ELSE UnitOk("sent")
    /\ UNCHANGED ucall
    /\ OnlyUnit

\* pump_amm.go 262-362: the checks, then the first request.
PumpAmmBuyEntry ==
    /\ uPc = "call"
    /\ ucall.fn = "PumpAmmBuy"
    /\ uPc' = "done"
    /\ IF FirstError(EntryChecks("PumpAmmBuy", ucall)) # "none"
         THEN /\ uRet' = UnitErr(FirstError(EntryChecks("PumpAmmBuy", ucall)))
              /\ UNCHANGED rpcLog
         ELSE /\ rpcLog' = Append(rpcLog, FirstRequest("PumpAmmBuy"))
              /\ uRet' = IF ucall.rpcErr THEN UnitErr("rpc") ELSE UnitOk("sent")
    /\ UNCHANGED ucall
    /\ OnlyUnit

\* pump_amm.go 379-417: the checks, then the first request.
PumpAmmSellEntry ==
    /\ uPc = "call"
    /\ ucall.fn = "PumpAmmSell"
    /\ uPc' = "done"
    /\ IF FirstError(EntryChecks("PumpAmmSell", ucall)) # "none"
         THEN /\ uRet' = UnitErr(FirstError(EntryChecks("PumpAmmSell", ucall)))
              /\ UNCHANGED rpcLog
         ELSE /\ rpcLog' = Append(rpcLog, FirstRequest("PumpAmmSell"))
              /\ uRet' = IF ucall.rpcErr THEN UnitErr("rpc") ELSE UnitOk("sent")
    /\ UNCHANGED ucall
    /\ OnlyUnit

\* pump_amm.go 442-537: the checks, then the first request.
PumpAmmSellWithSlippageEntry ==
    /\ uPc = "call"
    /\ ucall.fn = "PumpAmmSellWithSlippage"
    /\ uPc' = "done"
    /\ IF FirstError(EntryChecks("PumpAmmSellWithSlippage", ucall)) # "none"
         THEN /\ uRet' = UnitErr(FirstError(EntryChecks("PumpAmmSellWithSlippage", ucall)))
              /\ UNCHANGED rpcLog
         ELSE /\ rpcLog' = Append(rpcLog, FirstRequest("PumpAmmSellWithSlippage"))
              /\ uRet' = IF ucall.rpcErr THEN UnitErr("rpc") ELSE UnitOk("sent")
    /\ UNCHANGED ucall
    /\ OnlyUnit

\* quote entry point: the checks, then the first request.
AmmBuyQuoteEntry ==
    /\ uPc = "call"
    /\ ucall.fn = "AmmBuyQuote"
    /\ uPc' = "done"
    /\ IF FirstError(EntryChecks("AmmBuyQuote", ucall)) # "none"
         THEN /\ uRet' = UnitErr(FirstError(EntryChecks("AmmBuyQuote", ucall)))
              /\ UNCHANGED rpcLog
         ELSE /\ rpcLog' = Append(rpcLog, FirstRequest("AmmBuyQuote"))
              /\ uRet' = IF ucall.rpcErr THEN UnitErr("rpc") ELSE UnitOk("sent")
    /\ UNCHANGED ucall
    /\ OnlyUnit

\* quote entry point: the checks, then the first request.
AmmSellQuoteEntry ==
    /\ uPc = "call"
    /\ ucall.fn = "AmmSellQuote"
    /\ uPc' = "done"
    /\ IF FirstError(EntryChecks("AmmSellQuote", ucall)) # "none"
         THEN /\ uRet' = UnitErr(FirstError(EntryChecks("AmmSellQuote", ucall)))
              /\ UNCHANGED rpcLog
         ELSE /\ rpcLog' = Append(rpcLog, FirstRequest("AmmSellQuote"))
              /\ uRet' = IF ucall.rpcErr THEN UnitErr("rpc") ELSE UnitOk("sent")
    /\ UNCHANGED ucall
    /\ OnlyUnit

\* quote entry point: the checks, then the first request.
PumpBuyQuoteEntry ==
    /\ uPc = "call"
    /\ ucall.fn = "PumpBuyQuote"
    /\ uPc' = "done"
    /\ IF FirstError(EntryChecks("PumpBuyQuote", ucall)) # "none"
         THEN /\ uRet' = UnitErr(FirstError(EntryChecks("PumpBuyQuote", ucall)))
              /\ UNCHANGED rpcLog
         ELSE /\ rpcLog' = Append(rpcLog, FirstRequest("PumpBuyQuote"))
              /\ uRet' = IF ucall.rpcErr THEN UnitErr("rpc") ELSE UnitOk("sent")
    /\ UNCHANGED ucall
    /\ OnlyUnit

\* quote entry point: the checks, then the first request.
PumpSellQuoteEntry ==
    /\ uPc = "call"
    /\ ucall.fn = "PumpSellQuote"
    /\ uPc' = "done"
    /\ IF FirstError(EntryChecks("PumpSellQuote", ucall)) # "none"
         THEN /\ uRet' = UnitErr(FirstError(EntryChecks("PumpSellQuote", ucall)))
              /\ UNCHANGED rpcLog
         ELSE /\ rpcLog' = Append(rpcLog, FirstRequest("PumpSellQuote"))
              /\ uRet' = IF ucall.rpcErr THEN UnitErr("rpc") ELSE UnitOk("sent")
    /\ UNCHANGED ucall
    /\ OnlyUnit

EntryNext ==
    \/ PumpBuyEntry
    \/ PumpBuyExactSolInEntry
    \/ PumpSellEntry
    \/ PumpSellWithSlippageEntry
    \/ PumpAmmBuyWithSolEntry
    \/ PumpAmmBuyExactQuoteInEntry
    \/ PumpAmmBuyEntry
    \/ PumpAmmSellEntry
    \/ PumpAmmSellWithSlippageEntry
    \/ AmmBuyQuoteEntry
    \/ AmmSellQuoteEntry
    \/ PumpBuyQuoteEntry
    \/ PumpSellQuoteEntry

(***************************************************************************)
(* Account resolution: pumpAutofillBuy and pumpAutofillSell for a bonding  *)
(* curve, pumpAmmAutofillBuy and pumpAmmAutofillSell (through fetchAmmCore)*)
(* for a pool.                                                             *)
(***************************************************************************)
Resolvers ==
    {"pumpAutofillBuy", "pumpAutofillSell", "pumpAmmAutofillBuy", "pumpAmmAutofillSell"}

\* Decoded records: a pool or bonding curve, a global config with its list of
\* fee recipients ("zero" is the zero key).
VenueData == [kind |-> "venue", amount |-> 0]
GlobalData(rs) == [kind |-> "global", amount |-> 0, recipients |-> rs]
RecipientSamples == {<<"zero", "zero">>, <<"zero", "fee2">>, <<"fee1", "fee2">>}

VenueHeld ==
    {Nil, Account("Program", NilData), Account("Program", Garbage),
     Account("Program", VenueData)}
GlobalHeld ==
    {Nil, Account("Program", NilData), Account("Program", Garbage)}
    \cup {Account("Program", GlobalData(rs)) : rs \in RecipientSamples}
MintHeld == {Nil, Account("Token", EmptyData), Account("Token2022", EmptyData)}

ResolveErr(e, w) == [kind |-> "err", err |-> e, what |-> w]

\* util.go 81-83.
isZeroPKNever(pk) == FALSE

isZeroPK(pk) == pk = "zero"

\* util.go 85-92.
RECURSIVE firstNonZeroPK(_)
firstNonZeroPK(list) ==
    IF list = <<>> THEN "zero"
    ELSE IF ~isZeroPK(Head(list)) THEN Head(list)
    ELSE firstNonZeroPK(Tail(list))

\* acc == nil || acc.Data == nil, and whether Unmarshal accepts the bytes.
Missing(acc) == acc = Nil \/ acc.data.kind = "nil"
Decodes(acc, k) == acc.data.kind = k

MintMissing(acc) == acc = Nil

\* pump.go 414-501.
pumpAutofillBuyResult(n) ==
    LET feeRecipient == IF ~Missing(n.global) /\ Decodes(n.global, "global")
                          THEN firstNonZeroPK(n.global.data.recipients)
                          ELSE "zero"
    IN  IF n.rpcErr = "first" THEN ResolveErr("rpc", "batch")
        ELSE IF isZeroPK(feeRecipient) THEN ResolveErr("fee_recipient_not_found", "global")
        ELSE IF MintMissing(n.baseMint) THEN ResolveErr("not_found", "mint")
        ELSE IF Missing(n.venue) THEN ResolveErr("not_found", "venue")
        ELSE IF ~Decodes(n.venue, "venue") THEN ResolveErr("decode", "venue")
        ELSE UnitOk([FeeRecipient |-> feeRecipient,
                     BaseTokenProgram |-> n.baseMint.owner,
                     QuoteTokenProgram |-> "none"])

\* pump.go 503-584.
pumpAutofillSellResult(n) ==
    IF n.rpcErr = "first" THEN ResolveErr("rpc", "batch")
    ELSE IF Missing(n.global) THEN ResolveErr("not_found", "global")
    ELSE IF ~Decodes(n.global, "global") THEN ResolveErr("decode", "global")
    ELSE IF isZeroPK(firstNonZeroPK(n.global.data.recipients))
      THEN ResolveErr("fee_recipient_not_found", "global")
    ELSE IF MintMissing(n.baseMint) THEN ResolveErr("not_found", "mint")
    ELSE IF Missing(n.venue) THEN ResolveErr("not_found", "venue")
    ELSE IF ~Decodes(n.venue, "venue") THEN ResolveErr("decode", "venue")
    ELSE UnitOk([FeeRecipient |-> firstNonZeroPK(n.global.data.recipients),
                 BaseTokenProgram |-> n.baseMint.owner,
                 QuoteTokenProgram |-> "none"])

\* pump_amm.go 714-755: the token programs default to the SPL Token program
\* and are replaced by the owner of each mint account that was found.
fetchAmmCore(n) ==
    IF n.rpcErr = "first" THEN ResolveErr("rpc", "batch")
    ELSE IF Missing(n.venue) THEN ResolveErr("not_found", "venue")
    ELSE IF ~Decodes(n.venue, "venue") THEN ResolveErr("decode", "venue")
    ELSE IF Missing(n.global) THEN ResolveErr("not_found", "global")
    ELSE IF ~Decodes(n.global, "global") THEN ResolveErr("decode", "global")
    ELSE IF n.rpcErr = "second" THEN ResolveErr("rpc", "mints")
    ELSE UnitOk([GlobalConfig |-> n.global.data,
                 BaseTokenProgram |-> IF n.baseMint # Nil THEN n.baseMint.owner ELSE "Token",
                 QuoteTokenProgram |-> IF n.quoteMint # Nil THEN n.quoteMint.owner ELSE "Token"])

\* pump_amm.go 563-633 and 635-697: the same resolution for a buy and a sell.
pumpAmmAutofillResult(n) ==
    LET core == fetchAmmCore(n)
    IN  IF core.kind = "err" THEN core
        ELSE IF isZeroPK(firstNonZeroPK(core.value.GlobalConfig.recipients))
          THEN ResolveErr("fee_recipient_not_found", "global")
        ELSE UnitOk([FeeRecipient |-> firstNonZeroPK(core.value.GlobalConfig.recipients),
                     BaseTokenProgram |-> core.value.BaseTokenProgram,
                     QuoteTokenProgram |-> core.value.QuoteTokenProgram])

\* The requests fetchAmmCore sends: the pool and global config, then the mints.
AmmCoreRequests(n) ==
    IF n.rpcErr = "first" \/ Missing(n.venue) \/ ~Decodes(n.venue, "venue")
       \/ Missing(n.global) \/ ~Decodes(n.global, "global")
      THEN <<"getMultipleAccounts">>
      ELSE <<"getMultipleAccounts", "getMultipleAccounts">>

\* A bonding curve is quoted in SOL: it has one mint, and one batched fetch.
ResolveInit ==
    /\ ucall \in {k \in [fn : Resolvers,
                         node : [venue : VenueHeld, global : GlobalHeld, baseMint : MintHeld,
                                 quoteMint : MintHeld, rpcErr : {"none", "first", "second"}]] :
                     k.fn \in {"pumpAutofillBuy", "pumpAutofillSell"}
                         => (k.node.quoteMint = Nil /\ k.node.rpcErr # "second")}
    /\ uPc = "call"
    /\ rpcLog = <<>>
    /\ uRet = NoRet

pumpAutofillBuy ==
    /\ uPc = "call"
    /\ ucall.fn = "pumpAutofillBuy"
    /\ uPc' = "done"
    /\ rpcLog' = rpcLog \o <<"getMultipleAccounts">>
    /\ uRet' = pumpAutofillBuyResult(ucall.node)
    /\ UNCHANGED ucall
    /\ OnlyUnit

pumpAutofillSell ==
    /\ uPc = "call"
    /\ ucall.fn = "pumpAutofillSell"
    /\ uPc' = "done"
    /\ rpcLog' = rpcLog \o <<"getMultipleAccounts">>
    /\ uRet' = pumpAutofillSellResult(ucall.node)
    /\ UNCHANGED ucall
    /\ OnlyUnit

pumpAmmAutofillBuy ==
    /\ uPc = "call"
    /\ ucall.fn = "pumpAmmAutofillBuy"
    /\ uPc' = "done"
    /\ rpcLog' = rpcLog \o AmmCoreRequests(ucall.node)
    /\ uRet' = pumpAmmAutofillResult(ucall.node)
    /\ UNCHANGED ucall
    /\ OnlyUnit

pumpAmmAutofillSell ==
    /\ uPc = "call"
    /\ ucall.fn = "pumpAmmAutofillSell"
    /\ uPc' = "done"
    /\ rpcLog' = rpcLog \o AmmCoreRequests(ucall.node)
    /\ uRet' = pumpAmmAutofillResult(ucall.node)
    /\ UNCHANGED ucall
    /\ OnlyUnit

ResolveNext ==
    \/ pumpAutofillBuy
    \/ pumpAutofillSell
    \/ pumpAmmAutofillBuy
    \/ pumpAmmAutofillSell

(***************************************************************************)
(* The simulation-based quotes: each reads or is given a balance before,   *)
(* simulates the transaction once and compares the balance after.          *)
(***************************************************************************)
Simulations ==
    {"simulateBaseOut", "simulateAmmQuoteOut", "simulateSolOut", "simulateQuoteConsumedNoSign"}

\* What can go wrong on the way: the read of the balance before, the
\* blockhash for the transaction, the simulateTransaction request, the
\* simulated execution, an answer without the account, undecodable data.
SimFaults ==
    {"none", "pre_err", "blockhash_err", "sim_transport", "sim_exec", "empty", "garbage"}

\* The steps all four share once the balance before is known: build the
\* transaction, simulate it, read the balance after.
SimulatedPost(k) ==
    IF k.fault = "blockhash_err" THEN UnitErr("build")
    ELSE IF k.fault = "sim_transport" THEN UnitErr("rpc")
    ELSE IF k.fault = "sim_exec" THEN UnitErr("simulation")
    ELSE IF k.fault = "empty" THEN UnitErr("empty")
    ELSE IF k.fault = "garbage" THEN UnitErr("decode")
    ELSE UnitOk(k.post)

\* The calls made on the client for it: Client.GetLatestBlockhash (inside
\* BuildTransaction) and Client.SimulateTransaction, each once.
SimRequests(k) ==
    IF k.fault = "blockhash_err" THEN <<"Client.GetLatestBlockhash">>
    ELSE <<"Client.GetLatestBlockhash", "Client.SimulateTransaction">>

\* pump_amm.go 859-862, 914-917; pump.go 404-408.
IncreaseOf(pre, post) ==
    IF post < pre THEN UnitErr("decreased") ELSE UnitOk(post - pre)

\* pump_amm.go 957-961.
DecreaseOf(pre, post) ==
    IF pre < post THEN UnitOk(0) ELSE UnitOk(pre - post)

SimInit ==
    /\ ucall \in {k \in [fn : Simulations, pre : Lamports, post : Lamports, fault : SimFaults] :
                     /\ k.fn \in {"simulateBaseOut", "simulateQuoteConsumedNoSign"}
                            => k.fault # "pre_err"
                     /\ k.fn = "simulateSolOut" => k.fault # "garbage"}
    /\ uPc = "call"
    /\ rpcLog = <<>>
    /\ uRet = NoRet

\* pump_amm.go 824-865: the balance before is an argument.
simulateBaseOut ==
    /\ uPc = "call"
    /\ ucall.fn = "simulateBaseOut"
    /\ uPc' = "done"
    /\ rpcLog' = rpcLog \o SimRequests(ucall)
    /\ uRet' = IF SimulatedPost(ucall).kind = "err" THEN SimulatedPost(ucall)
               ELSE IncreaseOf(ucall.pre, ucall.post)
    /\ UNCHANGED ucall
    /\ OnlyUnit

\* pump_amm.go 868-920: the balance before is read with fetchTokenAmount.
simulateAmmQuoteOut ==
    /\ uPc = "call"
    /\ ucall.fn = "simulateAmmQuoteOut"
    /\ uPc' = "done"
    /\ IF ucall.fault = "pre_err"
         THEN /\ rpcLog' = rpcLog \o <<"getAccountInfo">>
              /\ uRet' = UnitErr("rpc")
         ELSE /\ rpcLog' = rpcLog \o <<"getAccountInfo">> \o SimRequests(ucall)
              /\ uRet' = IF SimulatedPost(ucall).kind = "err" THEN SimulatedPost(ucall)
                         ELSE IncreaseOf(ucall.pre, ucall.post)
    /\ UNCHANGED ucall
    /\ OnlyUnit

\* pump.go 365-410: the balance before is read with getBalance.
simulateSolOut ==
    /\ uPc = "call"
    /\ ucall.fn = "simulateSolOut"
    /\ uPc' = "done"
    /\ IF ucall.fault = "pre_err"
         THEN /\ rpcLog' = rpcLog \o <<"getBalance">>
              /\ uRet' = UnitErr("rpc")
         ELSE /\ rpcLog' = rpcLog \o <<"getBalance">> \o SimRequests(ucall)
              /\ uRet' = IF SimulatedPost(ucall).kind = "err" THEN SimulatedPost(ucall)
                         ELSE IncreaseOf(ucall.pre, ucall.post)
    /\ UNCHANGED ucall
    /\ OnlyUnit

\* pump_amm.go 923-963: the balance before is an argument, the quote is what
\* the simulation took from it.
simulateQuoteConsumedNoSign ==
    /\ uPc = "call"
    /\ ucall.fn = "simulateQuoteConsumedNoSign"
    /\ uPc' = "done"
    /\ rpcLog' = rpcLog \o SimRequests(ucall)
    /\ uRet' = IF SimulatedPost(ucall).kind = "err" THEN SimulatedPost(ucall)
               ELSE DecreaseOf(ucall.pre, ucall.post)
    /\ UNCHANGED ucall
    /\ OnlyUnit

SimNext ==
    \/ simulateBaseOut
    \/ simulateAmmQuoteOut
    \/ simulateSolOut
    \/ simulateQuoteConsumedNoSign

(***************************************************************************)
(* txbuilder.Builder: the operations that send a signed transaction and    *)
(* wait for its confirmation.                                              *)
(***************************************************************************)
SendAndConfirmOps == {"SendAndConfirm", "SendViaJitoAndConfirm"}

MaxSendPolls == 2

\* What a status query answers for the transaction: getSignatureStatuses of
\* the RPC node, getBundleStatuses of the relay.  "pending" is every answer
\* on which the poller continues.  The two need not agree.
PollerVerdicts == {"ok", "failed", "pending"}

ConfirmErr(e, by) == [kind |-> "err", err |-> e, by |-> by]

Verdict(v, by) ==
    IF v = "ok" THEN UnitOk("signature") ELSE ConfirmErr(v, by)

\* txbuilder.go 133-139: the relay when a Jito client is configured.
SendPath(k) == IF k.jito THEN "jito.sendTransaction" ELSE "rpc.sendTransaction"

StatusPolls(log) ==
    {n \in 1..Len(log) : log[n] \in {"rpc.getSignatureStatuses", "jito.getBundleStatuses"}}

\* ctxDone: the caller's context, which may be done before the call.  The
\* relay's send does not read it; a send through the RPC client fails on it.
SendInit ==
    /\ ucall \in {k \in [fn : SendAndConfirmOps, jito : BOOLEAN, clientNil : BOOLEAN,
                         sendErr : BOOLEAN, ctxDone : BOOLEAN,
                         rpcVerdict : PollerVerdicts, bundleVerdict : PollerVerdicts] :
                     (k.ctxDone /\ ~k.jito) => k.sendErr}
    /\ uPc = "call"
    /\ rpcLog = <<>>
    /\ uRet = NoRet

\* The caller cancels the context, or its deadline passes, while the
\* operation waits for the confirmation.
SendCtxCancel ==
    /\ uPc \in {"wait", "poll"}
    /\ ucall.fn \in SendAndConfirmOps
    /\ ~ucall.ctxDone
    /\ ucall' = [ucall EXCEPT !.ctxDone = TRUE]
    /\ UNCHANGED <<uPc, rpcLog, uRet>>
    /\ OnlyUnit

\* txbuilder.go 216-222 with Send 133-139, SendViaRPC 142-156, SendViaJito
\* 160-169, and the nil check of WaitForConfirmation 250-252.
SendAndConfirm ==
    /\ uPc = "call"
    /\ ucall.fn = "SendAndConfirm"
    /\ IF ~ucall.jito /\ ucall.clientNil
         THEN /\ uRet' = ConfirmErr("rpc client is nil", "send")
              /\ uPc' = "done"
              /\ UNCHANGED rpcLog
         ELSE IF ucall.sendErr
           THEN /\ uRet' = ConfirmErr("send", "send")
                /\ uPc' = "done"
                /\ rpcLog' = rpcLog \o <<SendPath(ucall)>>
           ELSE IF ucall.clientNil
             THEN /\ uRet' = ConfirmErr("rpc client is nil", "WaitForConfirmation")
                  /\ uPc' = "done"
                  /\ rpcLog' = rpcLog \o <<SendPath(ucall)>>
             ELSE /\ uPc' = "wait"
                  /\ rpcLog' = rpcLog \o <<SendPath(ucall)>>
                  /\ UNCHANGED uRet
    /\ UNCHANGED ucall
    /\ OnlyUnit

\* txbuilder.go 261-262 under SendAndConfirm 223-228: the ticker case issues
\* one getSignatureStatuses, with the context as it is then ("poll": live,
\* "pollCtxDone": done), and waits for it to return.
WaitForConfirmationTick ==
    /\ uPc = "wait"
    /\ ucall.fn = "SendAndConfirm"
    /\ Cardinality(StatusPolls(rpcLog)) < MaxSendPolls
    /\ rpcLog' = Append(rpcLog, "rpc.getSignatureStatuses")
    /\ uPc' = IF ucall.ctxDone THEN "pollCtxDone" ELSE "poll"
    /\ UNCHANGED <<ucall, uRet>>
    /\ OnlyUnit

\* txbuilder.go 262-289: the query returns and the reply is evaluated, with
\* no look at the context.  A query issued with a done context fails and the
\* loop continues; one issued with a live context returns the node's answer,
\* or fails when the context ends while it is in flight.
WaitForConfirmationReply ==
    /\ uPc \in {"poll", "pollCtxDone"}
    /\ ucall.fn = "SendAndConfirm"
    /\ \/ /\ uPc = "poll"
          /\ ucall.rpcVerdict # "pending"
          /\ uPc' = "done"
          /\ uRet' = Verdict(ucall.rpcVerdict, "WaitForConfirmation")
       \/ /\ uPc = "pollCtxDone" \/ ucall.ctxDone \/ ucall.rpcVerdict = "pending"
          /\ uPc' = "wait"
          /\ UNCHANGED uRet
    /\ UNCHANGED <<ucall, rpcLog>>
    /\ OnlyUnit

\* txbuilder.go 259-260 under SendAndConfirm 223-228: the ctx.Done() case.
WaitForConfirmationCtxDone ==
    /\ uPc = "wait"
    /\ ucall.fn = "SendAndConfirm"
    /\ ucall.ctxDone
    /\ uPc' = "done"
    /\ uRet' = ConfirmErr("ctx", "WaitForConfirmation")
    /\ UNCHANGED <<ucall, rpcLog>>
    /\ OnlyUnit

\* txbuilder.go 171-179: the send through the relay.
SendViaJitoAndConfirm ==
    /\ uPc = "call"
    /\ ucall.fn = "SendViaJitoAndConfirm"
    /\ IF ~ucall.jito
         THEN /\ uRet' = ConfirmErr("jito client is not configured", "send")
              /\ uPc' = "done"
              /\ UNCHANGED rpcLog
         ELSE IF ucall.sendErr
           THEN /\ uRet' = ConfirmErr("send", "send")
                /\ uPc' = "done"
                /\ rpcLog' = rpcLog \o <<"jito.sendTransaction">>
           ELSE /\ uPc' = "wait"
                /\ rpcLog' = rpcLog \o <<"jito.sendTransaction">>
                /\ UNCHANGED uRet
    /\ UNCHANGED ucall
    /\ OnlyUnit

\* part_005 438-439 under SendViaJitoAndConfirm 180-184: the ticker case
\* issues one getBundleStatuses and waits for it to return.
WaitForBundleConfirmationTick ==
    /\ uPc = "wait"
    /\ ucall.fn = "SendViaJitoAndConfirm"
    /\ Cardinality(StatusPolls(rpcLog)) < MaxSendPolls
    /\ rpcLog' = Append(rpcLog, "jito.getBundleStatuses")
    /\ uPc' = "poll"
    /\ UNCHANGED <<ucall, uRet>>
    /\ OnlyUnit

\* part_005 439-457: the query, which does not read the context, returns and
\* the reply is evaluated.
WaitForBundleConfirmationReply ==
    /\ uPc = "poll"
    /\ ucall.fn = "SendViaJitoAndConfirm"
    /\ IF ucall.bundleVerdict = "pending"
         THEN uPc' = "wait" /\ UNCHANGED uRet
         ELSE /\ uPc' = "done"
              /\ uRet' = Verdict(ucall.bundleVerdict, "WaitForBundleConfirmation")
    /\ UNCHANGED <<ucall, rpcLog>>
    /\ OnlyUnit

\* part_005 436-437 under SendViaJitoAndConfirm 180-184: the ctx.Done() case.
WaitForBundleConfirmationCtxDone ==
    /\ uPc = "wait"
    /\ ucall.fn = "SendViaJitoAndConfirm"
    /\ ucall.ctxDone
    /\ uPc' = "done"
    /\ uRet' = ConfirmErr("ctx", "WaitForBundleConfirmation")
    /\ UNCHANGED <<ucall, rpcLog>>
    /\ OnlyUnit

SendNext ==
    \/ SendCtxCancel
    \/ SendAndConfirm
    \/ WaitForConfirmationTick
    \/ WaitForConfirmationReply
    \/ WaitForConfirmationCtxDone
    \/ SendViaJitoAndConfirm
    \/ WaitForBundleConfirmationTick
    \/ WaitForBundleConfirmationReply
    \/ WaitForBundleConfirmationCtxDone

(***************************************************************************)
(* From resolution to the swap instruction: the account set a resolver     *)
(* returns when address derivations fail, the overrides applied to it and  *)
(* the instruction builder of the program bindings.                        *)
(***************************************************************************)
\* A role holds the zero address, a resolved address, the program key put in
\* as a placeholder, or an address given by an override.
ZeroAddr == "zero"

Derived(failed, role) == IF role \in failed THEN ZeroAddr ELSE "addr"

\* pump_amm.go 563-633: the derivations whose error is dropped
\* (if pk, _, err := ...; err == nil) leave the role as it was.
AmmBuySwallowed ==
    {"EventAuthority", "GlobalVolumeAccumulator", "UserVolumeAccumulator", "FeeConfig",
     "CoinCreatorVaultAuthority", "CoinCreatorVaultAta", "ProtocolFeeRecipientTokenAccount"}

pumpAmmAutofillBuyAccounts(failed) ==
    [r \in {"Pool", "User", "ProtocolFeeRecipient"} \cup AmmBuySwallowed |->
        IF r \in {"Pool", "User", "ProtocolFeeRecipient"} THEN "addr"
        ELSE IF r = "CoinCreatorVaultAuthority"
          THEN (IF r \in failed THEN "programKey" ELSE "addr")
        ELSE IF r = "CoinCreatorVaultAta"
          THEN (IF "CoinCreatorVaultAuthority" \in failed THEN ZeroAddr ELSE Derived(failed, r))
        ELSE Derived(failed, r)]

\* pump_amm.go 635-697.
AmmSellSwallowed ==
    {"EventAuthority", "FeeConfig", "ProtocolFeeRecipientTokenAccount",
     "CoinCreatorVaultAuthority", "CoinCreatorVaultAta"}

pumpAmmAutofillSellAccounts(failed) ==
    [r \in {"Pool", "User", "ProtocolFeeRecipient"} \cup AmmSellSwallowed |->
        IF r \in {"Pool", "User", "ProtocolFeeRecipient"} THEN "addr"
        ELSE IF r = "CoinCreatorVaultAta"
          THEN (IF "CoinCreatorVaultAuthority" \in failed THEN ZeroAddr ELSE Derived(failed, r))
        ELSE Derived(failed, r)]

\* pump.go 414-501.
PumpBuySwallowed ==
    {"Global", "BondingCurve", "EventAuthority", "GlobalVolumeAccumulator",
     "UserVolumeAccumulator", "FeeConfig", "CreatorVault"}

pumpAutofillBuyAccounts(failed) ==
    [r \in {"Mint", "User", "FeeRecipient", "AssociatedUser"} \cup PumpBuySwallowed |->
        IF r \in {"Mint", "User", "FeeRecipient", "AssociatedUser"} THEN "addr"
        ELSE Derived(failed, r)]

\* pump.go 503-584.
PumpSellSwallowed == {"Global", "BondingCurve", "EventAuthority", "FeeConfig", "CreatorVault"}

pumpAutofillSellAccounts(failed) ==
    [r \in {"Mint", "User", "FeeRecipient", "AssociatedUser"} \cup PumpSellSwallowed |->
        IF r \in {"Mint", "User", "FeeRecipient", "AssociatedUser"} THEN "addr"
        ELSE Derived(failed, r)]

\* part_001 13-98, the resolver of the command line's AMM buy: the creator
\* vault roles are derived only for a pool whose creator is not zero.
autofillPumpAMMBuyAccounts(failed, creator) ==
    [r \in {"Pool", "User", "ProtocolFeeRecipient"} \cup AmmBuySwallowed |->
        IF r \in {"Pool", "User", "ProtocolFeeRecipient"} THEN "addr"
        ELSE IF r \in {"CoinCreatorVaultAuthority", "CoinCreatorVaultAta"}
          THEN (IF creator = ZeroAddr \/ "CoinCreatorVaultAuthority" \in failed THEN ZeroAddr
                ELSE Derived(failed, r))
        ELSE Derived(failed, r)]

\* pump.go 443-447, 461-465, 486-489: the global and the bonding curve are
\* fetched at their derived addresses; nothing decodes at the zero address.
PumpFetchFails(failed) == "Global" \in failed \/ "BondingCurve" \in failed

\* util.go 19-45: every field named by the map takes the map's address, the
\* zero address included.
NoOverride == <<>>

applyPubkeyOverrides(accts, m) ==
    IF m = NoOverride THEN accts
    ELSE [r \in DOMAIN accts |-> IF r = m[1] THEN m[2] ELSE accts[r]]

OverrideSamples(roles) ==
    {NoOverride} \cup {<<r, v>> : r \in roles, v \in {ZeroAddr, "given"}}

\* pumpamm.BuildBuy, pumpamm.BuildSell, pump.BuildBuy, pump.BuildSell, the
\* instruction encoder encode(accounts, args) -> instructionBytes, error:
\* it encodes the account set it is given, or fails for a reason of its own
\* (encodeErr).  It takes zero keys: every account set holds the system
\* program, whose key is all zero.
BuildInstruction(accts, encodeErr) ==
    IF encodeErr THEN UnitErr("build") ELSE [kind |-> "ok", accounts |-> accts]

\* What can go wrong between the resolver and the build: the batched fetch of
\* the venue and global records, the fetch of the two mints (pools only), the
\* batched fetch of the token accounts, the simulateTransaction request.
AssembleFaults == {"none", "fetch_err", "mints_err", "ata_err", "sim_err"}

\* wsolQuote: the pool's quote mint is wrapped SOL under the token program.
AssembleInit ==
    /\ \/ ucall \in {k \in [fn : {"PumpAmmBuy"}, failed : SUBSET AmmBuySwallowed,
                            creator : {ZeroAddr, "addr"}, wsolQuote : BOOLEAN,
                            encodeErr : BOOLEAN, fault : AssembleFaults,
                            overrides : OverrideSamples({"User", "FeeConfig", "CoinCreatorVaultAta"})] :
                        k.fault = "sim_err" => k.wsolQuote}
       \/ ucall \in [fn : {"PumpAmmSell"}, failed : SUBSET AmmSellSwallowed,
                     creator : {ZeroAddr, "addr"}, wsolQuote : BOOLEAN,
                     encodeErr : BOOLEAN, fault : {"none", "fetch_err", "mints_err"},
                     overrides : OverrideSamples({"User", "FeeConfig", "CoinCreatorVaultAta"})]
       \/ ucall \in [fn : {"PumpBuy"}, failed : SUBSET PumpBuySwallowed,
                     creator : {ZeroAddr, "addr"}, wsolQuote : {FALSE},
                     encodeErr : BOOLEAN, fault : {"none", "fetch_err", "ata_err"},
                     overrides : OverrideSamples({"User", "FeeConfig", "Global"})]
       \/ ucall \in [fn : {"PumpSellWithSlippage"}, failed : SUBSET PumpSellSwallowed,
                     creator : {ZeroAddr, "addr"}, wsolQuote : {FALSE},
                     encodeErr : BOOLEAN, fault : {"none", "fetch_err", "ata_err", "sim_err"},
                     overrides : OverrideSamples({"User", "FeeConfig", "Global"})]
    /\ uPc = "call"
    /\ rpcLog = <<>>
    /\ uRet = NoRet

\* pump_amm.go 281-338: PumpAmmBuy.  pumpAmmAutofillBuy fetches with
\* fetchAmmCore (two getMultipleAccounts), ensureATABatchWithBalances fetches
\* the four token accounts, and for a wrapped-SOL quote the buy is built and
\* simulated (312-324) before the final BuildBuy.
AssemblePumpAmmBuy ==
    /\ uPc = "call"
    /\ ucall.fn = "PumpAmmBuy"
    /\ LET accts == applyPubkeyOverrides(pumpAmmAutofillBuyAccounts(ucall.failed),
                                         ucall.overrides)
       IN  IF ucall.fault = "fetch_err"
             THEN /\ rpcLog' = rpcLog \o <<"getMultipleAccounts">>
                  /\ uRet' = UnitErr("autofill")
           ELSE IF ucall.fault = "mints_err"
             THEN /\ rpcLog' = rpcLog \o <<"getMultipleAccounts", "getMultipleAccounts">>
                  /\ uRet' = UnitErr("autofill")
           ELSE IF ucall.fault = "ata_err"
             THEN /\ rpcLog' = rpcLog \o <<"getMultipleAccounts", "getMultipleAccounts",
                                           "getMultipleAccounts">>
                  /\ uRet' = UnitErr("rpc")
           ELSE IF ucall.wsolQuote /\ BuildInstruction(accts, ucall.encodeErr).kind = "ok"
             THEN /\ rpcLog' = rpcLog \o <<"getMultipleAccounts", "getMultipleAccounts",
                                           "getMultipleAccounts", "Client.GetLatestBlockhash",
                                           "Client.SimulateTransaction">>
                  /\ uRet' = IF ucall.fault = "sim_err" THEN UnitErr("simulate")
                             ELSE BuildInstruction(accts, ucall.encodeErr)
           ELSE /\ rpcLog' = rpcLog \o <<"getMultipleAccounts", "getMultipleAccounts",
                                         "getMultipleAccounts">>
                /\ uRet' = BuildInstruction(accts, ucall.encodeErr)
    /\ uPc' = "done"
    /\ UNCHANGED ucall
    /\ OnlyUnit

\* pump_amm.go 394-409: PumpAmmSell.
AssemblePumpAmmSell ==
    /\ uPc = "call"
    /\ ucall.fn = "PumpAmmSell"
    /\ IF ucall.fault = "fetch_err"
         THEN /\ rpcLog' = rpcLog \o <<"getMultipleAccounts">>
              /\ uRet' = UnitErr("autofill")
         ELSE IF ucall.fault = "mints_err"
           THEN /\ rpcLog' = rpcLog \o <<"getMultipleAccounts", "getMultipleAccounts">>
                /\ uRet' = UnitErr("autofill")
           ELSE /\ rpcLog' = rpcLog \o <<"getMultipleAccounts", "getMultipleAccounts">>
                /\ uRet' = BuildInstruction(applyPubkeyOverrides(
                               pumpAmmAutofillSellAccounts(ucall.failed), ucall.overrides), ucall.encodeErr)
    /\ uPc' = "done"
    /\ UNCHANGED ucall
    /\ OnlyUnit

\* pump.go 62-87: PumpBuy.  pumpAutofillBuy fetches once, at whatever
\* addresses the derivations left; ensureATABatch fetches the two token
\* accounts before BuildBuy is reached.
AssemblePumpBuy ==
    /\ uPc = "call"
    /\ ucall.fn = "PumpBuy"
    /\ IF ucall.fault = "fetch_err" \/ PumpFetchFails(ucall.failed)
         THEN /\ rpcLog' = rpcLog \o <<"getMultipleAccounts">>
              /\ uRet' = UnitErr("autofill")
         ELSE /\ rpcLog' = rpcLog \o <<"getMultipleAccounts", "getMultipleAccounts">>
              /\ uRet' = IF ucall.fault = "ata_err" THEN UnitErr("rpc")
                         ELSE BuildInstruction(applyPubkeyOverrides(
                                  pumpAutofillBuyAccounts(ucall.failed), ucall.overrides), ucall.encodeErr)
    /\ uPc' = "done"
    /\ UNCHANGED ucall
    /\ OnlyUnit

\* pump.go 295-323: PumpSellWithSlippage.  PumpSell resolves, applies the
\* overrides and builds the sell to simulate (228-241); then
\* ensureATABatchWithBalances, simulateSolOut (getBalance, blockhash,
\* simulation) and the final BuildSell on the same accounts.
AssemblePumpSell ==
    /\ uPc = "call"
    /\ ucall.fn = "PumpSellWithSlippage"
    /\ LET accts == applyPubkeyOverrides(pumpAutofillSellAccounts(ucall.failed),
                                         ucall.overrides)
       IN  IF ucall.fault = "fetch_err" \/ PumpFetchFails(ucall.failed)
             THEN /\ rpcLog' = rpcLog \o <<"getMultipleAccounts">>
                  /\ uRet' = UnitErr("autofill")
           ELSE IF BuildInstruction(accts, ucall.encodeErr).kind = "err"
             THEN /\ rpcLog' = rpcLog \o <<"getMultipleAccounts">>
                  /\ uRet' = BuildInstruction(accts, ucall.encodeErr)
           ELSE IF ucall.fault = "ata_err"
             THEN /\ rpcLog' = rpcLog \o <<"getMultipleAccounts", "getMultipleAccounts">>
                  /\ uRet' = UnitErr("rpc")
           ELSE /\ rpcLog' = rpcLog \o <<"getMultipleAccounts", "getMultipleAccounts",
                                         "getBalance", "Client.GetLatestBlockhash",
                                         "Client.SimulateTransaction">>
                /\ uRet' = IF ucall.fault = "sim_err" THEN UnitErr("simulate")
                           ELSE BuildInstruction(accts, ucall.encodeErr)
    /\ uPc' = "done"
    /\ UNCHANGED ucall
    /\ OnlyUnit

AssembleNext ==
    \/ AssemblePumpAmmBuy
    \/ AssemblePumpAmmSell
    \/ AssemblePumpBuy
    \/ AssemblePumpSell

(***************************************************************************)
(* rpc.Client.backoff: the delay before retry number attempt + 1, a        *)
(* time.Duration, which counts nanoseconds.                                *)
(***************************************************************************)
MaxAttemptIndex == 3

\* Nanoseconds: 1ns, 3ns, 1ms, 3ms; 1ns, 2ns, 8ns, 1ms, 2ms.
InitialBackoffSamples == {-1, 0, 1, 3, 1000000, 3000000}
MaxBackoffSamples == {-1, 0, 1, 2, 8, 1000000, 2000000}

\* Draws of rand.Int63n(n) for n > 0: the ends and the middle of [0, n).
Int63nSamples(n) == {0, n \div 2, n - 1}

BackoffInit ==
    /\ ucall \in [fn : {"backoff"}, attempt : 0..MaxAttemptIndex,
                  InitialBackoff : InitialBackoffSamples, MaxBackoff : MaxBackoffSamples,
                  Jitter : BOOLEAN]
    /\ uPc = "call"
    /\ rpcLog = <<>>
    /\ uRet = NoRet

\* part_005 144-164.  rand.Int63n(n) draws from [0, n) and panics for n <= 0.
backoff ==
    /\ uPc = "call"
    /\ ucall.fn = "backoff"
    /\ uPc' = "done"
    /\ IF ~ucall.Jitter
         THEN uRet' = UnitOk(BackoffDelay(ucall))
         ELSE IF BackoffDelay(ucall) \div 2 <= 0
           THEN uRet' = UnitErr("panic")
           ELSE \E jitter \in Int63nSamples(BackoffDelay(ucall) \div 2) :
                    uRet' = UnitOk(BackoffDelay(ucall) \div 2 + jitter)
    /\ UNCHANGED <<ucall, rpcLog>>
    /\ OnlyUnit

(***************************************************************************)
(* Specifications.                                                         *)
(***************************************************************************)
InitSlippage == SlipInit /\ CallIdle /\ ConfIdle /\ VanIdle /\ BuildIdle /\ UnitIdle

InitCall == CallInit /\ SlipIdle /\ ConfIdle /\ VanIdle /\ BuildIdle /\ UnitIdle

InitConfirm == ConfInit /\ SlipIdle /\ CallIdle /\ VanIdle /\ BuildIdle /\ UnitIdle

InitVanity == VanInit /\ SlipIdle /\ CallIdle /\ ConfIdle /\ BuildIdle /\ UnitIdle

InitBuild == BuildInit /\ SlipIdle /\ CallIdle /\ ConfIdle /\ VanIdle /\ UnitIdle

InitFetch == FetchInit /\ SlipIdle /\ CallIdle /\ ConfIdle /\ VanIdle /\ BuildIdle

InitEnsure == EnsureInit /\ SlipIdle /\ CallIdle /\ ConfIdle /\ VanIdle /\ BuildIdle

InitEntry == EntryInit /\ SlipIdle /\ CallIdle /\ ConfIdle /\ VanIdle /\ BuildIdle

InitResolve == ResolveInit /\ SlipIdle /\ CallIdle /\ ConfIdle /\ VanIdle /\ BuildIdle

InitSim == SimInit /\ SlipIdle /\ CallIdle /\ ConfIdle /\ VanIdle /\ BuildIdle

InitSend == SendInit /\ SlipIdle /\ CallIdle /\ ConfIdle /\ VanIdle /\ BuildIdle

InitAssemble == AssembleInit /\ SlipIdle /\ CallIdle /\ ConfIdle /\ VanIdle /\ BuildIdle

InitBackoff == BackoffInit /\ SlipIdle /\ CallIdle /\ ConfIdle /\ VanIdle /\ BuildIdle

SpecSlippage ==
    /\ InitSlippage
    /\ [][ApplySlippage]_vars

SpecCall ==
    /\ InitCall
    /\ [][CallNext]_vars

SpecConfirm ==
    /\ InitConfirm
    /\ [][ConfNext]_vars

\* Go's select picks uniformly among its ready cases, so a ctx.Done() case that
\* stays ready at every pass of the loop is eventually taken; and a request
\* made with the context returns, at the latest when the context is done.
SpecConfirmFair ==
    /\ SpecConfirm
    /\ WF_vars(WfcCtxDoneBranch)
    /\ WF_vars(WfcPollReturns)

SpecVanity ==
    /\ InitVanity
    /\ [][VanNext]_vars

SpecBuild ==
    /\ InitBuild
    /\ [][BuildNext]_vars

SpecFetch ==
    /\ InitFetch
    /\ [][FetchAccountsBatch]_vars

SpecEnsure ==
    /\ InitEnsure
    /\ [][EnsureATABatchWithBalances]_vars

SpecEntry ==
    /\ InitEntry
    /\ [][EntryNext]_vars

SpecResolve ==
    /\ InitResolve
    /\ [][ResolveNext]_vars

SpecSim ==
    /\ InitSim
    /\ [][SimNext]_vars

SpecSend ==
    /\ InitSend
    /\ [][SendNext]_vars

SpecAssemble ==
    /\ InitAssemble
    /\ [][AssembleNext]_vars

SpecBackoff ==
    /\ InitBackoff
    /\ [][backoff]_vars

\* Every started goroutine keeps being scheduled, a drawn key eventually comes
\* back without error, time passes, and Generate resumes when wg.Wait() can
\* return.  The caller's cancellation is not forced.
SpecVanityFair ==
    /\ SpecVanity
    /\ \A w \in WorkerIds : WF_vars(WorkerStep(w))
    /\ WF_vars(TimeoutFires)
    /\ WF_vars(GenerateReturn)

(***************************************************************************)
(* Claims.                                                                 *)
(***************************************************************************)

\* C2: for every uint64 amount and every slippageBps in [0, 10000],
\* applySlippage(amount, slippageBps) is the mathematical value
\* floor(amount * (10000 - slippageBps) / 10000), and it is 0 at 10000.
C2_SlippageIsFloor ==
    (slPc = "done" /\ slBps <= BpsDenominator) =>
        /\ slOut = FloorScaled(slAmount, slBps)
        /\ (slBps = BpsDenominator => slOut = Zero64)

\* C3: with retry enabled and maxAttempts >= 1, fn is invoked at most
\* maxAttempts times; a success of fn is its last invocation and call returns
\* success right then; call does not give up on a non-cancellation failure
\* while attempts remain; and after maxAttempts consecutive failures call
\* returns an error wrapping the last failure that names the operation and
\* the attempt count.
C3_RetryContract ==
    (callPc # "idle" /\ cfg.Enabled /\ cfg.MaxAttempts >= 1) =>
        /\ Len(fnLog) <= cfg.MaxAttempts
        /\ \A k \in 1..Len(fnLog) :
              fnLog[k] = "ok" =>
                  (k = Len(fnLog) /\ callPc = "done" /\ callRet = [kind |-> "ok"])
        /\ ( /\ callPc \in {"done", "panic"}
             /\ Len(fnLog) >= 1
             /\ Len(fnLog) < cfg.MaxAttempts
             /\ \A k \in 1..Len(fnLog) : fnLog[k] = "err" )
             => callRet = [kind |-> "ctx_err"]
        /\ ( /\ Len(fnLog) = cfg.MaxAttempts
             /\ \A k \in 1..Len(fnLog) : fnLog[k] # "ok" )
             => ( /\ callPc = "done"
                  /\ callRet = WrappedErr(op, cfg.MaxAttempts, fnLog[Len(fnLog)]) )

\* What does hold: the contract, for every configuration in which no backoff
\* of the call panics (no jitter, or every delay at least two nanoseconds).
RetryContractWithoutJitterPanic ==
    (\A n \in 0..MaxAttemptsBound : ~BackoffPanics(cfg, n)) => C3_RetryContract

\* fn failed once with attempts left, the context is live, and call panicked
\* in backoff instead of waiting and invoking fn again.
PanicInsteadOfRetry ==
    /\ callPc = "panic"
    /\ cfg.Enabled
    /\ cfg.MaxAttempts >= 2
    /\ cfg.Jitter
    /\ cfg.InitialBackoff = 1
    /\ ~ctxDone
    /\ fnLog = <<"err">>
    /\ callRet = [kind |-> "panic"]

\* C3 witness: call returned success on a retry, after an earlier failure.
C3_Witness ==
    /\ callPc = "done"
    /\ cfg.Enabled
    /\ callRet = [kind |-> "ok"]
    /\ Len(fnLog) >= 2
    /\ Len(fnLog) = cfg.MaxAttempts

\* C4: a cancellation error returned by fn is never followed by another
\* invocation of fn; and once the context is done while call waits for a
\* rate-limit token or sleeps in a backoff, the next step of call is to
\* return the context's error, with no further invocation of fn.
C4_CancelNotRetried ==
    /\ [](\A k \in 1..Len(fnLog) :
            fnLog[k] = "cancel" => (k = Len(fnLog) /\ callPc = "done"))
    /\ [][(ctxDone /\ callPc \in {"limiterWait", "backoff"}) =>
            ( /\ fnLog' = fnLog
              /\ callPc' = "done"
              /\ callRet' = [kind |-> "ctx_err"] )]_vars

\* What does hold: a cancellation error of fn ends the call at once, and a
\* context that is done when limiter.Wait is entered ends it before fn.
CancelErrorNotRetried ==
    /\ \A k \in 1..Len(fnLog) : fnLog[k] = "cancel" => (k = Len(fnLog) /\ callPc = "done")
    /\ (callPc = "done" /\ callRet.kind \in {"ctx_err", "limiter_err"} /\ fnLog = <<>>)
           => cfg.limiter

\* The context is done while call sleeps in the backoff, the select takes the
\* timer case, fn is invoked again and its error comes back wrapped.
RetriedAfterCancellation ==
    /\ callPc = "done"
    /\ ctxDone
    /\ cfg.Enabled
    /\ fnLog = <<"err", "cancel">>
    /\ callRet = WrappedErr(op, attempts, "cancel")

\* C4 witness: retries were available, fn returned a cancellation error on its
\* first invocation, and call has returned after that single invocation.
C4_Witness ==
    /\ callPc = "done"
    /\ cfg.Enabled
    /\ cfg.MaxAttempts >= 2
    /\ fnLog = <<"cancel">>

LastObserved == observed[Len(observed)]

DepthRank(c) ==
    CASE c = "finalized" -> 3
      [] c = "confirmed" -> 2
      [] OTHER -> 1

\* C5: WaitForConfirmation returns success only after a poll observed a status
\* with no execution error whose depth meets the requested one: never for
\* "confirmed" on a status that is only processed, never for "finalized" on a
\* status that is only processed or confirmed.
C5_SuccessOnlyAtDepth ==
    (wfcPc = "done" /\ wfcRet = [kind |-> "ok"]) =>
        /\ Len(observed) >= 1
        /\ LastObserved.kind = "status"
        /\ ~LastObserved.err
        /\ (level = "confirmed" => DepthRank(LastObserved.conf) >= 2)
        /\ (level = "finalized" => DepthRank(LastObserved.conf) >= 3)

\* C5 witness: success for "finalized", after an earlier poll saw the status
\* only confirmed.
C5_Witness ==
    /\ wfcPc = "done"
    /\ wfcRet = [kind |-> "ok"]
    /\ level = "finalized"
    /\ Len(observed) >= 2
    /\ observed[1] = Status(FALSE, "confirmed")

\* WaitForConfirmation is in its loop: at the select, or waiting for a
\* status query to return.
WfcPolling == wfcPc \in {"select", "poll", "pollCtxDone"}

\* Every poll but the last left the polling running.
EarlierPollsContinue ==
    \A k \in 1..(Len(observed) - 1) : PollOutcome(level, observed[k]) = "continue"

ExecErrorObserved ==
    /\ Len(observed) >= 1
    /\ LastObserved.kind = "status"
    /\ LastObserved.err

\* C6 as stated: WaitForConfirmation returns a failure other than cancellation
\* exactly when a polled status reports an execution error, at that same poll
\* whatever the depth; a failed query or an invisible signature never ends
\* the polling.
C6_FailureIffExecError ==
    /\ (wfcPc = "done" /\ wfcRet.kind \notin {"ok", "ctx_err"}) <=> ExecErrorObserved
    /\ (Len(observed) >= 1 /\ LastObserved.kind \in {"rpc_error", "empty"}) =>
           (WfcPolling \/ wfcRet = [kind |-> "ctx_err"])

\* C6 amended: with an RPC client, the failures other than cancellation are
\* exactly the polls that observed an execution error (returned at that poll,
\* whatever the depth), and a failed query or an invisible signature never
\* ends the polling; without an RPC client WaitForConfirmation fails at once
\* with a configuration error, before any poll.
C6_FailureIffExecErrorWithClient ==
    /\ clientNil =>
           /\ observed = <<>>
           /\ (wfcPc = "done" => wfcRet = [kind |-> "client_nil"])
    /\ ~clientNil =>
           /\ (wfcPc = "done" /\ wfcRet.kind \notin {"ok", "ctx_err"}) <=> ExecErrorObserved
           /\ ExecErrorObserved => wfcRet = [kind |-> "tx_failed"]
           /\ EarlierPollsContinue
           /\ (Len(observed) >= 1 /\ LastObserved.kind \in {"rpc_error", "empty"}) =>
                  (WfcPolling \/ wfcRet = [kind |-> "ctx_err"])

\* C6 witness: a failed query and an invisible signature were retried, then a
\* status that is already finalized but carries an execution error ended the
\* polling with a failure.
C6_Witness ==
    /\ wfcPc = "done"
    /\ wfcRet = [kind |-> "tx_failed"]
    /\ level = "processed"
    /\ observed = <<RpcError, NotVisible, Status(TRUE, "finalized")>>

\* C7: once the context is done while WaitForConfirmation is polling, it
\* eventually returns, and it returns the context's error.
C7_CancelEndsPolling ==
    (WfcPolling /\ wfcCtxDone) ~> (wfcPc = "done" /\ wfcRet = [kind |-> "ctx_err"])

\* C7 amended: once the context is done while WaitForConfirmation is polling,
\* it eventually returns; it returns the context's error, unless the status
\* query that was in flight when the context ended returns a status that
\* ends the polling, which is then returned; no query issued after the
\* context ended is acted on.
C7_CancelEndsPollingOrLastReply ==
    /\ ((wfcPc \in {"select", "pollCtxDone"} /\ wfcCtxDone)
            ~> (wfcPc = "done" /\ wfcRet = [kind |-> "ctx_err"]))
    /\ ((wfcPc = "poll" /\ wfcCtxDone)
            ~> (wfcPc = "done" /\ wfcRet.kind \in {"ctx_err", "ok", "tx_failed"}))

\* C7 witness: the context was cancelled after polls that saw nothing final,
\* one of them issued after the cancellation, and the context's error came back.
C7_Witness ==
    /\ wfcPc = "done"
    /\ wfcCtxDone
    /\ wfcRet = [kind |-> "ctx_err"]
    /\ Len(observed) >= 2
    /\ observed[1] = Status(FALSE, "processed")
    /\ LastObserved = RpcError

\* The context ended while a status query was in flight, the reply reports
\* the transaction finalized, and WaitForConfirmation returned success.
ReplyActedOnAfterCancel ==
    /\ wfcPc = "done"
    /\ wfcCtxDone
    /\ wfcRet = [kind |-> "ok"]
    /\ observed = <<Status(FALSE, "finalized")>>

\* The workers that are storing or have stored the result.
Recorders == {w \in WorkerIds : wpc[w] = "record" \/ (result # NoResult /\ result.by = w)}

\* The pattern as the caller wrote it, compared in lowercase under
\* case-insensitive mode.
MeetsRequest(o, addr) ==
    IF o.CaseInsensitive
      THEN /\ HasPrefix(ToLower(addr), ToLower(o.Prefix))
           /\ HasSuffix(ToLower(addr), ToLower(o.Suffix))
      ELSE /\ HasPrefix(addr, o.Prefix)
           /\ HasSuffix(addr, o.Suffix)

\* C8: in Generate, whatever the number of workers and the interleaving, found
\* goes from false to true at most once, exactly one worker (the one whose
\* compare-and-swap succeeded) records the result, and the result Generate
\* returns is that worker's keypair: its address starts with the requested
\* prefix and ends with the requested suffix (in lowercase under
\* case-insensitive mode) and its attempt count is at least 1.
C8_SingleWinner ==
    /\ [][found => found']_vars
    /\ [][result # NoResult => result' = result]_vars
    /\ [](found <=> Cardinality(casWinners) = 1)
    /\ [](Recorders \subseteq casWinners)
    /\ []((vanPc = "done" /\ found) => Recorders = casWinners)
    /\ []((vanPc = "done" /\ vanRet.kind = "ok") =>
             /\ vanRet.result = result
             /\ result.by \in casWinners
             /\ MeetsRequest(opts, result.addr)
             /\ result.Attempts >= 1)

\* C8 witness: two workers both drew a matching key, one lost the
\* compare-and-swap, and Generate returned the winner's keypair, under
\* case-insensitive mode with an upper-case prefix.
C8_Witness ==
    /\ vanPc = "done"
    /\ vanRet.kind = "ok"
    /\ opts.CaseInsensitive
    /\ opts.Prefix = <<"A">>
    /\ vanRet.result.addr = <<"a", "b">>
    /\ vanRet.result.Attempts = 2
    /\ Cardinality(casWinners) = 1
    /\ \A w \in WorkerIds : wpc[w] = "exited"

\* C9: when a timeout greater than zero is supplied or the caller's context is
\* cancelled, Generate terminates: a worker that reaches its found-flag check
\* with found set, or its cancellation check with the search context done,
\* exits there; Generate returns only after all workers have exited; and if no
\* match was found it returns an error that reports the total attempts made.
C9_SearchTerminates ==
    /\ (vanPc = "wait" /\ (TimerArmed \/ vanCtxDone)) ~> (vanPc = "done")
    /\ [][\A w \in WorkerIds :
            /\ (wpc[w] = "loop" /\ found /\ wpc'[w] # wpc[w]) => wpc'[w] = "exited"
            /\ (wpc[w] = "ctx" /\ searchCtxDone /\ wpc'[w] # wpc[w]) => wpc'[w] = "exited"]_vars
    /\ []((vanPc = "done" /\ vanRet.kind \notin {"config_err", "random_key"}) =>
             AllWorkersExited)
    /\ []((vanPc = "done" /\ vanRet.kind \notin {"config_err", "random_key"}
              /\ result = NoResult) =>
             vanRet = [kind |-> "cancelled", attempts |-> vanAttempts])

\* C9 witness: called through generateMintKey without a timeout option, the
\* default timeout ended a search in which two keys were drawn and neither
\* matched, and the error reports both attempts.
C9_Witness ==
    /\ vanPc = "done"
    /\ vanVia = "generateMintKey"
    /\ opts.Timeout = DefaultVanityTimeout
    /\ timerFired
    /\ ~vanCtxDone
    /\ vanRet = [kind |-> "cancelled", attempts |-> 2]
    /\ wpc[1] = "exited"

\* C10: Generate called with both prefix and suffix empty returns a
\* configuration error at once: no worker is started and no key is drawn, the
\* attempt counter stays at 0.
C10_EmptyPatternRejected ==
    (vanVia = "Generate" /\ opts.Prefix = <<>> /\ opts.Suffix = <<>> /\ vanPc # "entry") =>
        /\ vanPc = "done"
        /\ vanRet = [kind |-> "config_err"]
        /\ vanAttempts = 0
        /\ result = NoResult
        /\ \A w \in WorkerIds : wpc[w] = "idle"

\* C10 witness: Generate has returned the configuration error for an empty
\* pattern, with a worker count and a timeout that would otherwise start a
\* search.
C10_Witness ==
    /\ vanVia = "Generate"
    /\ opts.Prefix = <<>>
    /\ opts.Suffix = <<>>
    /\ opts.Workers = MaxWorkers
    /\ opts.Timeout > 0
    /\ vanPc = "done"
    /\ vanRet = [kind |-> "config_err"]

\* The group an instruction of a returned list belongs to: 1 token-account
\* creation, 2 WSOL wrap top-up, 3 swap, 4 close-account, 5 tip transfer.
GroupOf(ix) ==
    CASE ix.kind = "createATA" -> 1
      [] ix.kind = "transfer" /\ ix.account = "userQuote" -> 2
      [] ix.kind = "syncNative" -> 2
      [] ix.kind = "swap" -> 3
      [] ix.kind = "closeAccount" -> 4
      [] OTHER -> 5

InGroup(is, g) == {n \in 1..Len(is) : GroupOf(is[n]) = g}

GroupsInOrder(is) ==
    /\ \A m, n \in 1..Len(is) : m < n => GroupOf(is[m]) <= GroupOf(is[n])
    /\ Cardinality(InGroup(is, 3)) = 1
    /\ Cardinality(InGroup(is, 5)) <= 1
    /\ \/ InGroup(is, 2) = {}
       \/ \E n \in 1..(Len(is) - 1) :
            /\ InGroup(is, 2) = {n, n + 1}
            /\ is[n].kind = "transfer"
            /\ is[n].lamports > 0
            /\ is[n + 1].kind = "syncNative"

\* C1 as stated: every list a trade builder returns on success is ordered
\* [account creations, wrap top-up pair, swap, the close-account instruction,
\* tip], the swap exactly once and the close-account group a single
\* instruction.
C1_InstructionOrder ==
    (bPc = "done" /\ bRet.kind = "ok") =>
        /\ GroupsInOrder(bRet.instrs)
        /\ Cardinality(InGroup(bRet.instrs, 4)) <= 1

\* C1 amended: every list a trade builder returns on success is ordered
\* [account creations, wrap top-up pair, swap, close-account instructions, tip],
\* the swap exactly once; the close-account group holds at most two
\* instructions, and when it holds two the first closes the user's base token
\* account and the second closes the user's quote (WSOL) account.
C1_InstructionOrderTwoCloses ==
    (bPc = "done" /\ bRet.kind = "ok") =>
        /\ GroupsInOrder(bRet.instrs)
        /\ Cardinality(InGroup(bRet.instrs, 4)) <= 2
        /\ \A m, n \in InGroup(bRet.instrs, 4) :
               m < n => /\ bRet.instrs[m] = CloseAccount("userBase")
                        /\ bRet.instrs[n] = CloseAccount("userQuote")
                        /\ bcall.fn \in {"PumpAmmBuy", "PumpAmmSellWithSlippage"}

\* C1 witness: a sell on a WSOL-quoted pool with CloseBaseATA and a tip, the
\* quote account missing: creation, swap, both close-account instructions, tip.
C1_Witness ==
    /\ bPc = "done"
    /\ bcall.fn = "PumpAmmSellWithSlippage"
    /\ bRet.kind = "ok"
    /\ bRet.instrs = <<CreateATA("userQuote"), Swap("Sell"), CloseAccount("userBase"),
                       CloseAccount("userQuote"), Transfer("tipAccount", 1)>>

\* C11: fetchAccountsBatch called with K >= 1 addresses issues exactly one
\* remote call whatever K; called with no address it returns an empty map and
\* issues none; the map it returns holds exactly the requested addresses that
\* have an account on the node, an address without one being absent and not
\* an error.
C11_OneCallPerBatch ==
    (uPc = "done" /\ ucall.fn = "fetchAccountsBatch") =>
        /\ Len(ucall.addrs) >= 1 => rpcLog = <<"getMultipleAccounts">>
        /\ Len(ucall.addrs) = 0 => (rpcLog = <<>> /\ uRet = UnitOk(<<>>))
        /\ ~ucall.rpcErr =>
               /\ uRet.kind = "ok"
               /\ DOMAIN uRet.value =
                      {a \in AddrSamples3 :
                          /\ \E n \in 1..Len(ucall.addrs) : ucall.addrs[n] = a
                          /\ ucall.node.accounts[a] # Nil}
               /\ \A a \in DOMAIN uRet.value : uRet.value[a] = ucall.node.accounts[a]

\* C11 witness: three addresses asked, one of them twice over and one without
\* an account: one remote call, a map of one entry.
C11_Witness ==
    /\ uPc = "done"
    /\ ucall.fn = "fetchAccountsBatch"
    /\ ucall.addrs = <<"addr1", "addr2", "addr1">>
    /\ ucall.node.accounts["addr1"] # Nil
    /\ ucall.node.accounts["addr2"] = Nil
    /\ rpcLog = <<"getMultipleAccounts">>
    /\ uRet.kind = "ok"
    /\ DOMAIN uRet.value = {"addr1"}

\* The addresses requested, and those for which a creation was emitted.
RequestedAddrs == {ATAAddr(ucall.requests[n]) : n \in 1..Len(ucall.requests)}
CreatedAddrs ==
    {uRet.value.Instructions[n].account : n \in 1..Len(uRet.value.Instructions)}

EnsureReturned ==
    uPc = "done" /\ ucall.fn = "ensureATABatchWithBalances" /\ uRet.kind = "ok"

\* C12 as stated: for every address requested of ensureATABatchWithBalances a
\* creation instruction is emitted if and only if the address was absent from
\* the batched fetch result; none for an address present with a non-zero
\* balance.
C12_CreateIffAbsent ==
    EnsureReturned =>
        /\ CreatedAddrs = {a \in RequestedAddrs : ucall.node.accounts[a] = Nil}
        /\ \A a \in RequestedAddrs :
               (ucall.node.accounts[a] # Nil /\ ucall.node.accounts[a].data.amount > 0)
                   => a \notin CreatedAddrs

\* C12 amended: a creation instruction is emitted for a requested address if
\* and only if the batched fetch result holds no account for it or holds one
\* that the request's token program does not own; none is emitted for an
\* address that holds a token account, whatever its balance.
C12_CreateIffNoTokenAccount ==
    EnsureReturned =>
        /\ CreatedAddrs = {a \in RequestedAddrs :
                              \/ ucall.node.accounts[a] = Nil
                              \/ ucall.node.accounts[a].owner # a[2]}
        /\ \A a \in RequestedAddrs :
               (ucall.node.accounts[a] # Nil /\ ucall.node.accounts[a].owner = a[2])
                   => a \notin CreatedAddrs

\* C12 witness: two requests, one address holding a token account with a
\* balance, the other a system account: one creation, for the second.
C12_Witness ==
    /\ EnsureReturned
    /\ Len(ucall.requests) = 2
    /\ ucall.node.accounts[ATAAddr(ucall.requests[1])] = Account("Token", TokenData(1))
    /\ ucall.node.accounts[ATAAddr(ucall.requests[2])] = Account("System", EmptyData)
    /\ uRet.value.Instructions = <<CreateATA(ATAAddr(ucall.requests[2]))>>

\* The instructions of a returned list that act on the user's quote account
\* to wrap SOL.
WrapInstrs ==
    SelectSeq(bRet.instrs,
              LAMBDA x : x.account = "userQuote" /\ x.kind \in {"transfer", "syncNative"})

WrapBuyReturned ==
    /\ bPc = "done"
    /\ bcall.fn \in {"PumpAmmBuyWithSol", "PumpAmmBuyExactQuoteIn"}
    /\ bRet.kind = "ok"
    /\ isWSOL(chain.pair.quote, chain.quoteProgIsToken)

\* C13: in PumpAmmBuyWithSol and PumpAmmBuyExactQuoteIn on a pool quoted in
\* wrapped SOL, the wrap transfers exactly max(0, intended spend - existing
\* wrapped balance) to the user's quote account and then syncs it; when the
\* existing balance covers the spend there is neither transfer nor sync.
C13_WrapTopsUpDifference ==
    WrapBuyReturned =>
        IF chain.quoteBalance >= bcall.amount
          THEN WrapInstrs = <<>>
          ELSE WrapInstrs = <<Transfer("userQuote", bcall.amount - chain.quoteBalance),
                              SyncNative("userQuote")>>

\* C13 witness: a spend of 2 with 1 already wrapped wraps 1.
C13_Witness ==
    /\ WrapBuyReturned
    /\ bcall.fn = "PumpAmmBuyWithSol"
    /\ bcall.amount = MaxLamports
    /\ chain.quoteBalance = MaxLamports - 1
    /\ "userQuote" \notin chain.missing
    /\ WrapInstrs = <<Transfer("userQuote", 1), SyncNative("userQuote")>>

\* C13 witness of the other branch: the balance covers the spend, no wrap.
C13_WitnessCovered ==
    /\ WrapBuyReturned
    /\ bcall.fn = "PumpAmmBuyExactQuoteIn"
    /\ chain.quoteBalance >= bcall.amount
    /\ WrapInstrs = <<>>

\* The positions of a list that hold a tip: a transfer to a tip account.
TipPositions(is) ==
    {n \in 1..Len(is) : is[n].kind = "transfer" /\ is[n].account # "userQuote"}

TipIsLast(is, n) ==
    /\ TipPositions(is) = {Len(is)}
    /\ is[Len(is)].lamports = n

\* C14: for every trade builder and every option combination, a list returned
\* on success ends with exactly one tip transfer of the requested amount when
\* a non-zero tip is requested, and holds no tip transfer when the tip amount
\* is zero.
C14_TipIffRequested ==
    (bPc = "done" /\ bRet.kind = "ok") =>
        IF bcall.opt.JitoTipLamports > 0
          THEN TipIsLast(bRet.instrs, bcall.opt.JitoTipLamports)
          ELSE TipPositions(bRet.instrs) = {}

\* What the builders do guarantee: the tip is there when an amount and a tip
\* account are both set, and in the bonding-curve builders whenever an amount
\* is set.
TipAppendedWhenAccountSet ==
    (bPc = "done" /\ bRet.kind = "ok") =>
        IF /\ bcall.opt.JitoTipLamports > 0
           /\ (bcall.opt.JitoTipAccount # "zero" \/ bcall.fn \in PumpBuilders)
          THEN TipIsLast(bRet.instrs, bcall.opt.JitoTipLamports)
          ELSE TipPositions(bRet.instrs) = {}

\* The arguments an entry point takes.
TakesTrader(fn) == fn \notin {"PumpBuyQuote", "PumpSellQuote"}
TakesSlippage(fn) ==
    fn \in {"PumpSellWithSlippage", "PumpAmmBuyWithSol", "PumpAmmSellWithSlippage",
            "AmmBuyQuote", "AmmSellQuote"}

\* A call whose client (and signer) is there and one of whose arguments is
\* invalid: a zero amount, a zero trader or venue address, a slippage above
\* 10000.
InvalidArgument(k) ==
    /\ ~k.rpcNil
    /\ ~k.signerNil
    /\ \/ k.amount = 0
       \/ k.venueZero
       \/ TakesTrader(k.fn) /\ k.userZero
       \/ TakesSlippage(k.fn) /\ k.slippageBps > BpsDenominator

EntryReturned == uPc = "done" /\ ucall.fn \in TradeEntryPoints \cup QuoteEntryPoints

\* C15: every public trade-build and quote entry point rejects a zero amount,
\* a zero trader or venue address and a slippage above 10000 with a
\* validation error, before any request is sent to the node.
C15_InvalidArgumentsRejected ==
    (EntryReturned /\ InvalidArgument(ucall)) =>
        (uRet = UnitErr("validation") /\ rpcLog = <<>>)

\* The calls that get through: PumpAmmSell with a zero amount, AmmSellQuote
\* with a slippage above 10000, PumpBuyQuote and PumpSellQuote with a zero
\* mint.
EntryGap(k) ==
    \/ k.fn = "PumpAmmSell" /\ ~k.userZero /\ ~k.venueZero
    \/ k.fn = "AmmSellQuote" /\ ~k.userZero /\ ~k.venueZero /\ k.amount # 0
    \/ k.fn \in {"PumpBuyQuote", "PumpSellQuote"} /\ k.amount # 0

\* What the entry points do guarantee: outside those calls an invalid
\* argument is rejected with a validation error before any request.
InvalidArgumentsRejectedOutsideGaps ==
    (EntryReturned /\ InvalidArgument(ucall) /\ ~EntryGap(ucall)) =>
        (uRet = UnitErr("validation") /\ rpcLog = <<>>)

ResolveReturned == uPc = "done" /\ ucall.fn \in Resolvers

\* The global config was fetched and decoded, and every fee recipient in it
\* is the zero key.
GlobalAllZero(n) ==
    /\ n.global # Nil
    /\ n.global.data.kind = "global"
    /\ \A m \in 1..Len(n.global.data.recipients) : n.global.data.recipients[m] = "zero"

VenueFound(n) == n.venue # Nil /\ n.venue.data.kind = "venue"

IsAmmResolver(fn) == fn \in {"pumpAmmAutofillBuy", "pumpAmmAutofillSell"}

\* C16: account resolution, for a curve and for a pool, for a buy and for a
\* sell, fails with the configuration-incomplete error (no fee recipient in
\* the global config) whenever every fee recipient of the fetched global
\* config is zero.
C16_AllZeroRecipientsConfigError ==
    (ResolveReturned /\ GlobalAllZero(ucall.node)) =>
        uRet = ResolveErr("fee_recipient_not_found", "global")

\* C16, amended: with an all-zero fee-recipient list resolution never
\* succeeds, and the failure is the configuration-incomplete error whenever
\* the fetches went through and, for a pool, the pool record was found and
\* decoded; a pool resolver reports a missing or undecodable pool, or a
\* failed fetch, before it looks at the recipients.
C16_AllZeroRecipientsFail ==
    (ResolveReturned /\ GlobalAllZero(ucall.node)) =>
        /\ uRet.kind = "err"
        /\ (ucall.node.rpcErr = "none"
            /\ (IsAmmResolver(ucall.fn) => VenueFound(ucall.node)))
               => uRet = ResolveErr("fee_recipient_not_found", "global")

\* A pool resolver finds no pool account and reports that, although the
\* global config it fetched in the same batch has no fee recipient.
PoolErrorBeforeRecipients ==
    /\ ResolveReturned
    /\ IsAmmResolver(ucall.fn)
    /\ ucall.node.rpcErr = "none"
    /\ ucall.node.venue = Nil
    /\ GlobalAllZero(ucall.node)
    /\ uRet.kind = "err"
    /\ uRet # ResolveErr("fee_recipient_not_found", "global")

\* C16 witness: a pool buy with everything on the node in order but the fee
\* recipients, all zero.
C16_Witness ==
    /\ ResolveReturned
    /\ ucall.fn = "pumpAmmAutofillBuy"
    /\ ucall.node.rpcErr = "none"
    /\ VenueFound(ucall.node)
    /\ ucall.node.baseMint # Nil
    /\ ucall.node.quoteMint # Nil
    /\ ucall.node.global = Account("Program", GlobalData(<<"zero", "zero">>))
    /\ uRet = ResolveErr("fee_recipient_not_found", "global")

\* The venue account or one of the asset mint accounts is absent from the
\* fetch result (a curve has one mint, a pool a base and a quote mint).
VenueOrMintAbsent(k) ==
    \/ k.node.venue = Nil
    \/ k.node.baseMint = Nil
    \/ IsAmmResolver(k.fn) /\ k.node.quoteMint = Nil

GlobalInOrder(n) ==
    /\ n.global # Nil
    /\ n.global.data.kind = "global"
    /\ ~GlobalAllZero(n)

\* C17: account resolution fails with a not-found error whenever the venue
\* account (pool or bonding curve) or any asset mint account (base or quote)
\* is absent from the fetch result.
C17_AbsentAccountNotFound ==
    (ResolveReturned /\ ucall.node.rpcErr = "none" /\ VenueOrMintAbsent(ucall)) =>
        (uRet.kind = "err" /\ uRet.err = "not_found")

\* What the resolvers do guarantee: with the global config in order, an
\* absent venue account is reported as not found by all four, and an absent
\* mint by the two bonding-curve resolvers.
AbsentVenueOrCurveMintNotFound ==
    (/\ ResolveReturned
     /\ ucall.node.rpcErr = "none"
     /\ GlobalInOrder(ucall.node)
     /\ \/ ucall.node.venue = Nil
        \/ ~IsAmmResolver(ucall.fn) /\ ucall.node.baseMint = Nil) =>
        (uRet.kind = "err" /\ uRet.err = "not_found")

\* The pool resolvers succeed when a mint account is absent, taking the SPL
\* Token program for it.
AmmResolvesWithoutMint ==
    /\ ResolveReturned
    /\ ucall.fn = "pumpAmmAutofillBuy"
    /\ ucall.node.rpcErr = "none"
    /\ VenueFound(ucall.node)
    /\ GlobalInOrder(ucall.node)
    /\ ucall.node.quoteMint = Nil
    /\ uRet.kind = "ok"
    /\ uRet.value.QuoteTokenProgram = "Token"

\* A fetched record whose bytes do not decode.
Undecodable(acc) == acc # Nil /\ acc.data.kind = "garbage"

\* C18: whenever the bytes of a fetched record (venue, global config) fail to
\* decode, resolution fails with a malformed-data error; the failure is never
\* reported as a missing account or a missing fee recipient.
C18_DecodeFailureIsMalformedData ==
    (/\ ResolveReturned
     /\ ucall.node.rpcErr = "none"
     /\ Undecodable(ucall.node.venue) \/ Undecodable(ucall.node.global)) =>
        (uRet.kind = "err" /\ uRet.err = "decode")

\* pumpAutofillBuy reports an undecodable global config as a missing fee
\* recipient, with the curve and the mint in order.
UndecodableGlobalReportedAsNoRecipient ==
    /\ ResolveReturned
    /\ ucall.fn = "pumpAutofillBuy"
    /\ ucall.node.rpcErr = "none"
    /\ VenueFound(ucall.node)
    /\ ucall.node.baseMint # Nil
    /\ Undecodable(ucall.node.global)
    /\ uRet = ResolveErr("fee_recipient_not_found", "global")

\* What the other three resolvers guarantee: an undecodable record, every
\* record checked before it being in order, is a decode error.
DecodeFailureReportedElsewhere ==
    (/\ ResolveReturned
     /\ ucall.fn # "pumpAutofillBuy"
     /\ ucall.node.rpcErr = "none"
     /\ \/ Undecodable(ucall.node.global) /\ VenueFound(ucall.node) /\ ucall.node.baseMint # Nil
        \/ Undecodable(ucall.node.venue) /\ GlobalInOrder(ucall.node)
               /\ ucall.node.baseMint # Nil) =>
        (uRet.kind = "err" /\ uRet.err = "decode")

\* ensureATABatchWithBalances returns without an error and without a balance
\* for a token account whose data does not decode; its callers read the
\* absent balance as zero.
UndecodableBalanceSwallowed ==
    /\ EnsureReturned
    /\ \E a \in RequestedAddrs :
         /\ Undecodable(ucall.node.accounts[a])
         /\ ucall.node.accounts[a].owner = a[2]
         /\ a \notin DOMAIN uRet.value.Balances

SimReturned == uPc = "done" /\ ucall.fn \in Simulations

\* The quote is negative: the balance fell where the quote is what was
\* received, it rose where the quote is what was consumed.
NegativeDelta(k) ==
    IF k.fn = "simulateQuoteConsumedNoSign" THEN k.pre < k.post ELSE k.post < k.pre

\* C19: in every simulation-based quote (simulateBaseOut, simulateAmmQuoteOut,
\* simulateSolOut, simulateQuoteConsumedNoSign) a negative delta is returned
\* as an error, never swallowed or turned into a zero quote.
C19_NegativeDeltaIsError ==
    (SimReturned /\ ucall.fault = "none" /\ NegativeDelta(ucall)) =>
        uRet = UnitErr("decreased")

\* simulateQuoteConsumedNoSign answers a balance that rose with a quote of 0
\* and no error.
NegativeConsumptionIsZeroQuote ==
    /\ SimReturned
    /\ ucall.fn = "simulateQuoteConsumedNoSign"
    /\ ucall.fault = "none"
    /\ ucall.pre < ucall.post
    /\ uRet = UnitOk(0)

\* What the other three guarantee: a balance that fell is an error.
NegativeDeltaIsErrorInOutQuotes ==
    (/\ SimReturned
     /\ ucall.fn # "simulateQuoteConsumedNoSign"
     /\ ucall.fault = "none"
     /\ NegativeDelta(ucall)) =>
        uRet = UnitErr("decreased")

\* C20: a simulation is never retried: Client.SimulateTransaction sends at
\* most one simulateTransaction request, whether the request fails with a
\* transport error or the simulated execution fails.
C20_SimulationNotRetried ==
    op = "simulateTransaction" => Len(fnLog) <= 1

\* Client.SimulateTransaction with retries enabled sends the request again
\* after a transport error.
SimulationSentTwice ==
    /\ op = "simulateTransaction"
    /\ cfg.Enabled
    /\ Len(fnLog) = 2
    /\ fnLog[1] = "err"

\* What does hold: one request when retries are disabled or allow one
\* attempt, and none after a request that was answered, execution error or
\* not (the execution error comes in the answer, fn returns nil).
SimulationSentOnceWithoutRetries ==
    op = "simulateTransaction" =>
        /\ (~cfg.Enabled \/ cfg.MaxAttempts <= 1) => Len(fnLog) <= 1
        /\ \A k \in 1..Len(fnLog) : fnLog[k] = "ok" => k = Len(fnLog)

\* C21: with rate limiting enabled every remote call issued through the
\* client, each retry attempt included, is preceded by the acquisition of one
\* limiter token, so the remote calls started never outnumber the tokens
\* granted; without a limiter a call never waits for one.
C21_OneTokenPerRemoteCall ==
    /\ cfg.limiter => Len(fnLog) <= TokensGranted
    /\ ~cfg.limiter => callPc # "limiter"

\* A rate-limited call that sent its request twice on one token.
RetrySentWithoutToken ==
    /\ cfg.limiter
    /\ cfg.Enabled
    /\ TokensGranted = 1
    /\ Len(fnLog) = 2

\* What does hold: the first request of a rate-limited call is sent after a
\* token was granted, and a call without a limiter never waits.
FirstRequestAfterToken ==
    /\ (cfg.limiter /\ Len(fnLog) >= 1) => TokensGranted = 1
    /\ (cfg.limiter /\ callPc \in {"enter", "limiter"}) => fnLog = <<>>
    /\ ~cfg.limiter => callPc # "limiter"

\* C22: a transport failure of a remote call made by a pipeline stage other
\* than simulation (here the batched account fetch) is retried according to
\* the retry policy and reaches the caller only after the configured attempts
\* are exhausted.
C22_FetchFailureRetried ==
    (uPc = "done" /\ ucall.fn = "fetchAccountsBatch" /\ uRet = UnitErr("rpc")) =>
        Len(rpcLog) = ucall.retryAttempts

\* fetchAccountsBatch returns the transport error of its one request although
\* the client's policy allows more attempts.
FetchFailureNotRetried ==
    /\ uPc = "done"
    /\ ucall.fn = "fetchAccountsBatch"
    /\ ucall.retryAttempts >= 2
    /\ rpcLog = <<"getMultipleAccounts">>
    /\ uRet = UnitErr("rpc")

\* A send-and-confirm operation returned after its transaction was sent.
SentAndReturned ==
    /\ uPc = "done"
    /\ ucall.fn \in SendAndConfirmOps
    /\ Len(rpcLog) >= 1
    /\ ~ucall.sendErr
    /\ ~ucall.clientNil

\* The outcome is the one of the RPC poller: success only on a status the RPC
\* node reported, a failure only from WaitForConfirmation.
DecidedByRpcPoller ==
    /\ uRet.kind = "ok" =>
           /\ ucall.rpcVerdict = "ok"
           /\ rpcLog[Len(rpcLog)] = "rpc.getSignatureStatuses"
    /\ uRet.kind = "err" =>
           /\ uRet.by = "WaitForConfirmation"
           /\ uRet.err = "failed" =>
                  (ucall.rpcVerdict = "failed"
                   /\ rpcLog[Len(rpcLog)] = "rpc.getSignatureStatuses")

\* C23: for every send-and-confirm operation of the builder, whether the
\* transaction went through the relay or through standard RPC, the outcome is
\* decided by the standard-RPC poller WaitForConfirmation and never by relay
\* bundle-status queries.
C23_ConfirmedByRpcPoller ==
    SentAndReturned =>
        /\ DecidedByRpcPoller
        /\ \A n \in 1..Len(rpcLog) : rpcLog[n] # "jito.getBundleStatuses"

\* SendViaJitoAndConfirm reports success on the relay's word while the RPC
\* poller would report the transaction failed.
ConfirmedByBundleStatus ==
    /\ SentAndReturned
    /\ ucall.fn = "SendViaJitoAndConfirm"
    /\ ucall.rpcVerdict = "failed"
    /\ ucall.bundleVerdict = "ok"
    /\ uRet = UnitOk("signature")
    /\ rpcLog = <<"jito.sendTransaction", "jito.getBundleStatuses">>

\* What SendAndConfirm guarantees: on either send path it is the RPC poller
\* that decides, and the relay is never asked for a status.
SendAndConfirmUsesRpcPoller ==
    (SentAndReturned /\ ucall.fn = "SendAndConfirm") =>
        /\ DecidedByRpcPoller
        /\ \A n \in 2..Len(rpcLog) : rpcLog[n] = "rpc.getSignatureStatuses"
        /\ rpcLog[1] = SendPath(ucall)

\* The context ended while getSignatureStatuses was in flight; the reply
\* reports the transaction confirmed and SendAndConfirm returns success.
ConfirmedAfterCancel ==
    /\ SentAndReturned
    /\ ucall.fn = "SendAndConfirm"
    /\ ucall.ctxDone
    /\ ucall.rpcVerdict = "ok"
    /\ uRet = UnitOk("signature")

\* A context that is done before the first tick ends the wait with no status
\* query at all.
CancelledBeforeFirstPoll ==
    /\ SentAndReturned
    /\ ucall.fn = "SendAndConfirm"
    /\ rpcLog = <<"jito.sendTransaction">>
    /\ uRet = ConfirmErr("ctx", "WaitForConfirmation")

\* PumpAmmBuyWithSol returned a list for a pool quoted in wrapped SOL.
BuyWithSolReturned ==
    /\ bPc = "done"
    /\ bcall.fn = "PumpAmmBuyWithSol"
    /\ bRet.kind = "ok"
    /\ isWSOL(chain.pair.quote, chain.quoteProgIsToken)

SwapPositions(is) == {n \in 1..Len(is) : is[n].kind = "swap"}

ClosePositions(is, acct) == {n \in 1..Len(is) : is[n] = CloseAccount(acct)}

\* C24: every list PumpAmmBuyWithSol returns for a pool quoted in wrapped SOL
\* holds a close-account instruction for the trader's wrapped-SOL account,
\* placed after the swap.
C24_UnwrapsRemainingWSOL ==
    BuyWithSolReturned =>
        \E n \in ClosePositions(bRet.instrs, "userQuote") :
            \A m \in SwapPositions(bRet.instrs) : m < n

\* A buy that wraps SOL into the trader's quote account and never closes it.
WrappedAndNeverClosed ==
    /\ BuyWithSolReturned
    /\ WrapInstrs # <<>>
    /\ SwapPositions(bRet.instrs) # {}
    /\ \A n \in 1..Len(bRet.instrs) : bRet.instrs[n].kind # "closeAccount"

\* What the builder does close: the trader's base account, after the swap,
\* exactly when the base mint is wrapped SOL; the quote account never.
BuyWithSolClosesBaseOnly ==
    (bPc = "done" /\ bcall.fn = "PumpAmmBuyWithSol" /\ bRet.kind = "ok") =>
        /\ ClosePositions(bRet.instrs, "userQuote") = {}
        /\ (chain.pair.base = WSOLMint) <=>
               (\E n \in ClosePositions(bRet.instrs, "userBase") :
                    \A m \in SwapPositions(bRet.instrs) : m < n)

\* PumpAmmSellWithSlippage returned from a call that gave an expected quote
\* output and named both of the trader's token accounts as known.
KnownSellReturned ==
    /\ bPc = "done"
    /\ bcall.fn = "PumpAmmSellWithSlippage"
    /\ bcall.opt.ExpectedQuoteOut > 0
    /\ {"userBase", "userQuote"} \subseteq bcall.opt.KnownATAs

\* C25: PumpAmmSellWithSlippage with WithExpectedQuoteOut(q), q > 0, and both
\* trader token accounts in WithKnownATAs runs no simulation and no
\* token-account existence fetch, creates no token account, and sets the
\* minimum quote output to applySlippage(q, slippageBps).
C25_KnownSellSkipsSimulationAndFetch ==
    KnownSellReturned =>
        /\ \A n \in 1..Len(PumpAmmSellWithSlippageRemote(chain, bcall)) :
               PumpAmmSellWithSlippageRemote(chain, bcall)[n] \notin
                   {"simulateAmmQuoteOut", "ensureATABatchWithBalances"}
        /\ bRet.kind = "ok" =>
               /\ bRet.min = applySlippage(U64(bcall.opt.ExpectedQuoteOut), bcall.slippageBps)
               /\ \A n \in 1..Len(bRet.instrs) : bRet.instrs[n].kind # "createATA"

\* C25 witness: a sell of that kind succeeds against a node on which the
\* accounts are missing and the simulation would have failed; only the pool
\* fetch was made and the minimum is 99% of the expected output.
C25_Witness ==
    /\ KnownSellReturned
    /\ bRet.kind = "ok"
    /\ chain.fault = "sim_err"
    /\ "userQuote" \in chain.missing
    /\ bcall.slippageBps = 100
    /\ bcall.opt.ExpectedQuoteOut = MaxLamports
    /\ PumpAmmSellWithSlippageRemote(chain, bcall) = <<"fetchAmmCore">>
    /\ bRet.min = applySlippage(U64(MaxLamports), 100)

AssembleOps == {"PumpAmmBuy", "PumpAmmSell", "PumpBuy", "PumpSellWithSlippage"}

\* The account set the builder hands to the instruction builder.
AssembledFrom ==
    applyPubkeyOverrides(
        IF ucall.fn = "PumpAmmBuy" THEN pumpAmmAutofillBuyAccounts(ucall.failed)
        ELSE IF ucall.fn = "PumpAmmSell" THEN pumpAmmAutofillSellAccounts(ucall.failed)
        ELSE IF ucall.fn = "PumpBuy" THEN pumpAutofillBuyAccounts(ucall.failed)
        ELSE pumpAutofillSellAccounts(ucall.failed),
        ucall.overrides)

AssembleReturned == uPc = "done" /\ ucall.fn \in AssembleOps

\* C26: no trade builder returns a swap instruction while a role of its
\* resolved account set is zero-valued: when a failed derivation or an
\* override leaves a role at the zero address, the build fails.
C26_NoInstructionWithZeroRole ==
    AssembleReturned =>
        /\ uRet.kind = "ok" => \A r \in DOMAIN uRet.accounts : uRet.accounts[r] # ZeroAddr
        /\ (\E r \in DOMAIN AssembledFrom : AssembledFrom[r] = ZeroAddr) => uRet.kind = "err"

\* An override names the fee config with the zero key; the builder copies it
\* into the account set and returns the instruction built from it.
InstructionWithZeroOverride ==
    /\ AssembleReturned
    /\ ucall.fn = "PumpAmmSell"
    /\ ucall.failed = {}
    /\ ucall.fault = "none"
    /\ ucall.overrides = <<"FeeConfig", ZeroAddr>>
    /\ uRet.kind = "ok"
    /\ uRet.accounts["FeeConfig"] = ZeroAddr

\* The resolver drops the error of the fee-config derivation and returns the
\* account set with that role zero; the builder checks nothing and returns
\* the instruction.
InstructionWithSwallowedDerivation ==
    /\ AssembleReturned
    /\ ucall.fn = "PumpAmmBuy"
    /\ ucall.failed = {"FeeConfig"}
    /\ ucall.overrides = NoOverride
    /\ ucall.fault = "none"
    /\ rpcLog = <<"getMultipleAccounts", "getMultipleAccounts", "getMultipleAccounts">>
    /\ uRet.kind = "ok"
    /\ uRet.accounts["FeeConfig"] = ZeroAddr

\* What the builders do guarantee: the instruction is built from the account
\* set as resolved and overridden, unchanged, and an error of the resolver, of
\* a fetch, of the simulation or of the encoder is returned as an error.
InstructionFromResolvedSet ==
    AssembleReturned =>
        /\ uRet.kind = "ok" => uRet.accounts = AssembledFrom
        /\ (ucall.fault # "none" \/ ucall.encodeErr) => uRet.kind = "err"

\* An override resolves a role whose derivation failed, and the instruction
\* is assembled.
OverrideResolvesFailedDerivation ==
    /\ AssembleReturned
    /\ ucall.failed = {"FeeConfig"}
    /\ ucall.overrides = <<"FeeConfig", "given">>
    /\ ucall.fault = "none"
    /\ uRet.kind = "ok"

\* The remote calls that read one account's balance.
PreBalanceReads(log) == {n \in 1..Len(log) : log[n] \in {"getAccountInfo", "getBalance"}}

\* C27: in every quote path the balance before the instructions is the one
\* captured by the batched fetch already made for the build; no quote path
\* issues a separate remote call to read it.
C27_PreBalanceFromBatch ==
    SimReturned => PreBalanceReads(rpcLog) = {}

\* simulateAmmQuoteOut reads the balance before with a getAccountInfo of its
\* own, ahead of the blockhash fetch and the simulation.
SeparatePreBalanceRead ==
    /\ SimReturned
    /\ ucall.fn = "simulateAmmQuoteOut"
    /\ ucall.fault = "none"
    /\ rpcLog = <<"getAccountInfo">> \o SimRequests(ucall)
    /\ uRet.kind = "ok"

\* The buy-side quotes take the balance before as an argument and read nothing.
BuyQuotesUseBatchBalance ==
    (SimReturned /\ ucall.fn \in {"simulateBaseOut", "simulateQuoteConsumedNoSign"}) =>
        PreBalanceReads(rpcLog) = {}

\* The account set the resolver of the builder returned, before overrides.
ResolvedAccounts ==
    IF ucall.fn = "PumpAmmBuy" THEN pumpAmmAutofillBuyAccounts(ucall.failed)
    ELSE IF ucall.fn = "PumpAmmSell" THEN pumpAmmAutofillSellAccounts(ucall.failed)
    ELSE IF ucall.fn = "PumpBuy" THEN pumpAutofillBuyAccounts(ucall.failed)
    ELSE pumpAutofillSellAccounts(ucall.failed)

CreatorVaultRoles == {"CoinCreatorVaultAuthority", "CoinCreatorVaultAta", "CreatorVault"}

\* C28: resolution derives the creator-vault addresses (the authority and its
\* token account) only when the creator decoded from the venue record is not
\* zero; for a zero creator these roles hold no derived address.
C28_CreatorVaultOnlyForCreator ==
    (AssembleReturned /\ ucall.creator = ZeroAddr
     /\ ucall.fault \notin {"fetch_err", "mints_err"}) =>
        \A r \in CreatorVaultRoles \cap DOMAIN ResolvedAccounts : ResolvedAccounts[r] # "addr"

\* pumpAmmAutofillBuy derives both creator-vault roles for a pool whose
\* creator is zero, and the instruction is built with them.
VaultDerivedForZeroCreator ==
    /\ AssembleReturned
    /\ ucall.fn = "PumpAmmBuy"
    /\ ucall.creator = ZeroAddr
    /\ ucall.failed = {}
    /\ ucall.fault = "none"
    /\ ~ucall.wsolQuote
    /\ rpcLog = <<"getMultipleAccounts", "getMultipleAccounts", "getMultipleAccounts">>
    /\ ResolvedAccounts["CoinCreatorVaultAuthority"] = "addr"
    /\ ResolvedAccounts["CoinCreatorVaultAta"] = "addr"
    /\ uRet.kind = "ok"

\* The resolver of the command line's AMM buy is the one that follows the
\* rule: no creator-vault role for a zero creator.
CliBuySkipsVaultForZeroCreator ==
    (AssembleReturned /\ ucall.fn = "PumpAmmBuy" /\ ucall.creator = ZeroAddr) =>
        \A r \in {"CoinCreatorVaultAuthority", "CoinCreatorVaultAta"} :
            autofillPumpAMMBuyAccounts(ucall.failed, ucall.creator)[r] = ZeroAddr

RECURSIVE Doubled(_, _)
Doubled(x, n) == IF n = 0 THEN x ELSE Doubled(2 * x, n - 1)

\* The base delay doubled attempt times, capped at the maximum delay.
CappedBackoff(k) ==
    LET base == IF k.InitialBackoff <= 0 THEN DefaultInitialBackoff ELSE k.InitialBackoff
        d == Doubled(base, k.attempt)
    IN  IF d > k.MaxBackoff THEN k.MaxBackoff ELSE d

BackoffReturned ==
    /\ uPc = "done"
    /\ ucall.fn = "backoff"
    /\ ucall.attempt >= 0
    /\ ucall.MaxBackoff > 0

\* C29: for every attempt index i >= 0 and every configuration with a positive
\* maximum delay, the backoff is the base delay doubled i times and capped at
\* the maximum, so it never exceeds the maximum; with jitter the delay waited
\* lies between half that value and that value.
C29_BackoffDoubledAndCapped ==
    BackoffReturned =>
        /\ uRet.kind = "ok"
        /\ uRet.value <= ucall.MaxBackoff
        /\ IF ucall.Jitter
             THEN /\ CappedBackoff(ucall) \div 2 <= uRet.value
                  /\ uRet.value <= CappedBackoff(ucall)
             ELSE uRet.value = CappedBackoff(ucall)

\* The first delay of a configuration whose base delay is above its maximum
\* is the base delay: the cap is applied only after a doubling.
FirstDelayAboveMax ==
    /\ BackoffReturned
    /\ ucall.attempt = 0
    /\ ~ucall.Jitter
    /\ ucall.InitialBackoff = 3000000
    /\ ucall.MaxBackoff = 2000000
    /\ uRet = UnitOk(3000000)

\* With jitter and a delay of one nanosecond, rand.Int63n(0) panics.
JitterPanicsOnSmallestDelay ==
    /\ BackoffReturned
    /\ ucall.Jitter
    /\ BackoffDelay(ucall) = 1
    /\ uRet = UnitErr("panic")

\* What backoff guarantees: when the base delay is within the maximum (and,
\* with jitter, the delay is at least two nanoseconds) the delay is as stated.
BackoffCappedWhenBaseWithinMax ==
    (/\ BackoffReturned
     /\ CappedBackoff([ucall EXCEPT !.attempt = 0]) = BackoffDelay([ucall EXCEPT !.attempt = 0])
     /\ ucall.Jitter => BackoffDelay(ucall) >= 2) =>
        /\ uRet.kind = "ok"
        /\ uRet.value <= ucall.MaxBackoff
        /\ IF ucall.Jitter
             THEN /\ CappedBackoff(ucall) \div 2 <= uRet.value
                  /\ uRet.value < CappedBackoff(ucall)
             ELSE uRet.value = CappedBackoff(ucall)

\* C30: within one instruction list no two token-account-creation
\* instructions target the same associated token address, also when two of the
\* requested roles resolve to the same wallet and mint.
C30_NoDuplicateCreate ==
    EnsureReturned =>
        \A m, n \in 1..Len(uRet.value.Instructions) :
            uRet.value.Instructions[m].account = uRet.value.Instructions[n].account => m = n

\* Two requests for the same wallet, mint and token program, the account
\* missing on the node: the list creates it twice.
CreatedTwice ==
    /\ EnsureReturned
    /\ Len(ucall.requests) = 2
    /\ ucall.requests[1] = ucall.requests[2]
    /\ ucall.node.accounts[ATAAddr(ucall.requests[1])] = Nil
    /\ uRet.value.Instructions = <<CreateATA(ATAAddr(ucall.requests[1])),
                                   CreateATA(ATAAddr(ucall.requests[1]))>>

\* What the loop guarantees: one creation per request that finds no token
\* account, so no address is created twice when the requested addresses differ.
NoDuplicateCreateForDistinctRequests ==
    (/\ EnsureReturned
     /\ \A m, n \in 1..Len(ucall.requests) :
            ATAAddr(ucall.requests[m]) = ATAAddr(ucall.requests[n]) => m = n) =>
        \A m, n \in 1..Len(uRet.value.Instructions) :
            uRet.value.Instructions[m].account = uRet.value.Instructions[n].account => m = n

====
